---- MODULE Spec2Model ----
(***************************************************************************)
(* Model of haael/baxend.                                                  *)
(*                                                                         *)
(* Part I: cross-process reader/writer coordination (src/locking.py) as    *)
(* used by Table (src/database.py): the locked_ro / locked_rw decorators,  *)
(* MultiLock, MultiInt and Accessor.__init__.                              *)
(*                                                                         *)
(* Specifications:                                                         *)
(*   Spec           processes calling locked_ro / locked_rw methods        *)
(*   FairSpec       Spec with every process scheduled fairly               *)
(*   SpecMultiLock  processes calling MultiLock.acquire / release directly *)
(*   SpecWait       MultiLock.wait / wait_for with a timeout, and readers  *)
(*   SpecMultiInt   assignments to MultiInt.value                          *)
(*   SpecCtor       MultiLock.__init__ on arbitrary arguments              *)
(*                                                                         *)
(* Part II: the wire protocol client (src/basex.py: locked, Session,       *)
(* Query) and the Database scope with its query cache (src/database.py).   *)
(*                                                                         *)
(* Specifications:                                                         *)
(*   SpecSession    threads calling the Session and Query API              *)
(*   SpecDatabase   threads using the Database scope and its query cache   *)
(*   SpecCache      SpecDatabase with one thread active at a time          *)
(*                                                                         *)
(* Part III: the Table expression algebra (src/database.py: Table) and the *)
(* methods that execute a selection.                                       *)
(*                                                                         *)
(* Specifications:                                                         *)
(*   SpecTable      Tables built by the expression operators               *)
(*   SpecSelect     SpecTable with str(table) and del table[...]           *)
(*   SpecProduct    cartesian products up to the limit of operands         *)
(*   SpecSetItem    Spec with Table.__setitem__ as the body of a writer    *)
(*                                                                         *)
(* Part IV: GlobalDict (src/locking.py), the response streams and the      *)
(* socket buffer (src/basex.py), and Table reads (src/database.py).        *)
(*                                                                         *)
(* Specifications:                                                         *)
(*   SpecGlobalDict processes looking keys up in one GlobalDict            *)
(*   SpecResults    Session._RESULTS / _FULL on arbitrary responses        *)
(*   SpecBuffer     SocketWrapper.Buffer and recv_str on chunked streams   *)
(*   SpecShared     two threads reading through one cached QueryHandle     *)
(*   FairSpecEof    receives on a connection the server closes             *)
(*   SpecOver       Table.__call__ and Table.tag over a result stream      *)
(***************************************************************************)
EXTENDS Integers, Sequences, FiniteSets, TLC

(* ------------------------------ bounds -------------------------------- *)

NProcs == 2          \* processes that call wrapped methods concurrently
StreamLen == 2       \* items a wrapped generator yields at most
MaxTime == 14        \* the clock stops here (SpecWait)
Timeout == 10        \* timeout passed to wait / wait_for (SpecWait)
MaxInts == 3         \* underlying counters of a MultiInt (SpecMultiInt)
MaxVal == 3          \* |value| assigned to a MultiInt (SpecMultiInt)
MaxArgs == 2         \* arguments of MultiLock.__init__ (SpecCtor)
NLocks == 3          \* distinct lock objects (SpecCtor)
NThreads == 2        \* threads that share one Session
NHandles == 2        \* Query objects a Database scope creates at most (SpecDatabase)
MaxItems == 1        \* items the server streams for Results / Full at most
MaxBuf == 4          \* bytes the input buffer holds at most
MaxOut == 2          \* bytes left in the output buffer at most
MaxTables == 4       \* Table objects at most (SpecTable)
MaxSelect == 3       \* Table objects at most (SpecSelect)
MaxDocs == 2         \* Table objects made by Database.doc() at most
MaxProducts == 5     \* Table objects at most (SpecProduct)

Procs == 1..NProcs
Keys == {"x", "y", "z"}    \* lock keys known to the Driver
Documents == {"x", "y"}    \* keys of the accessors of Spec, as in test_mp

VARIABLES
  write_lock,      \* Driver.write_lock[key]: holder of the manager Lock, 0 = free
  read_condition,  \* Driver.read_condition[key]: [owner, waiters] of the manager Condition
  read_counter,    \* Driver.read_counter[key]: manager Value(c_int)
  pc,              \* position of each process inside the call it executes
  call,            \* the call each process is executing
  idx,             \* position of the `for lock in self.locks` loop in progress
  locked_up_to,    \* MultiLock.acquire: locked_up_to
  phase,           \* MultiLock.acquire: "try" in the for loop, "undo" / "undo_raise" while releasing self.locks[:locked_up_to]
  acc,             \* partial sum of MultiInt.value while a predicate is evaluated
  item,            \* items the caller has drawn from a returned generator
  result,          \* return value of the last direct MultiLock call of a process
  now,             \* time(), in units of a tenth of the smallest timeout
  timer,           \* MultiLock.wait / wait_for: timeout, start_time, cur_time
  integers,        \* MultiInt.integers: the values of the underlying counters
  setter,          \* MultiInt.value setter in progress
  ctor,            \* MultiLock.__init__ in progress
  sock,            \* Session.__swrapper: "none" before open, "open", "closed" after close
  session_lock,    \* Session.lock: the thread that holds it, 0 = free
  in_buffer,       \* SocketWrapper.in_buffer: bytes received and not yet consumed
  out_buffer,      \* SocketWrapper.out_buffer: number of bytes buffered and not yet flushed
  authenticated,   \* the server has answered a login on this connection with status 0
  thread,          \* the call each thread of the client is executing
  handle,          \* the Query objects: query string and id_ (<<>> when the attribute is absent)
  queries,         \* Database.queries: query string -> Query object, 0 = no entry
  scope,           \* where the Database context manager stands
  exit_log,        \* what Database.__exit__ has done so far, in order
  tables,          \* the Table objects created so far, in order of creation
  bvars,           \* the dict objects that Tables hold as bound_variables
  last,            \* the last Table operation: operator, operands, argument, outcome
  written,         \* Table.__setitem__ of each process: 1 between its DELETE and its INSERT
  global_dict,     \* a GlobalDict of the Driver: backing dict, lock, the cache of each process
  results,         \* a _RESULTS / _FULL generator: bytes to read, items yielded, outcome
  swrapper,        \* a SocketWrapper: chunks of the in_buffer, its length, bytes on the wire
  shared_query,    \* a cached Query used by the threads of a process: the values bound
  over             \* Table.__call__ / Table.tag: the stream it consumes and its position

vars == <<write_lock, read_condition, read_counter, pc, call, idx, locked_up_to,
          phase, acc, item, result, now, timer, integers, setter, ctor,
          sock, session_lock, in_buffer, out_buffer, authenticated, thread, handle,
          queries, scope, exit_log, tables, bvars, last, written,
              global_dict, results, swrapper, shared_query, over>>

(* ------------------------- pure definitions --------------------------- *)

RECURSIVE SumSeq(_)
\* sum(...) of a sequence of integers
SumSeq(s) == IF s = <<>> THEN 0 ELSE Head(s) + SumSeq(Tail(s))

\* MultiInt.increment: len(self.integers)
MultiIntIncrement(ints) == Len(ints)

\* MultiInt.value (getter): sum(_integer.value for _integer in self.integers)
MultiIntValue(ints) == SumSeq(ints)

\* a mutant of MultiIntRaises: the divisibility test is missing
MultiIntRaisesNever(ints, value) == FALSE

\* MultiInt.value setter: the divisibility test that raises ValueError
MultiIntRaises(ints, value) ==
  (value - MultiIntValue(ints)) % MultiIntIncrement(ints) # 0

\* MultiInt.value setter: what is added to every underlying integer
MultiIntDelta(ints, value) ==
  (value - MultiIntValue(ints)) \div MultiIntIncrement(ints)

\* the underlying counters of the MultiInt an accessor over keys ks holds
CounterValues(counter, ks) == [n \in 1..Len(ks) |-> counter[ks[n]]]

\* a mutant of MultiIntSet: only the first underlying integer is updated
MultiIntSetFirstOnly(counter, ks, value) ==
  [counter EXCEPT ![ks[1]] = @ + MultiIntDelta(CounterValues(counter, ks), value)]

\* MultiInt.value setter, whole loop: every underlying integer += delta
MultiIntSet(counter, ks, value) ==
  LET d == MultiIntDelta(CounterValues(counter, ks), value)
      S == {ks[n] : n \in 1..Len(ks)}
  IN [k \in DOMAIN counter |-> IF k \in S THEN counter[k] + d ELSE counter[k]]

\* hasattr(old_method, '__next__'): only generator and iterator objects have
\* __next__; what the decorators receive is a function object
HasNextAttr(obj) == obj \in {"generator", "iterator"}

\* which of the two new_method variants the decorator installs
StreamWrapped(method) == HasNextAttr(method)

\* Accessor.__init__: (lock_key, multi) pairs; a Table passes a document name,
\* or a frozenset of names with multi = True, iterated in an arbitrary order
Accessors ==
  [keys : {<<d>> : d \in Documents}, multi : {FALSE}]
    \cup [keys : {<<"x", "y">>, <<"y", "x">>, <<"x">>}, multi : {TRUE}]

\* the lock lists of MultiLocks over distinct keys of the Driver
LockLists ==
  {s \in UNION {[1..n -> Keys] : n \in 1..Cardinality(Keys)} :
     \A i, j \in DOMAIN s : i # j => s[i] # s[j]}

NoCall == [kind |-> "none", keys |-> <<>>, multi |-> FALSE,
           method |-> "function", blocking |-> TRUE]

NoTimer == [timed |-> FALSE, timeout |-> 0, start_time |-> 0, cur_time |-> 0]

KeySet(c) == {c.keys[n] : n \in 1..Len(c.keys)}

(* ------------------------------ state --------------------------------- *)

LockInit ==
  /\ write_lock = [k \in Keys |-> 0]
  /\ read_condition = [k \in Keys |-> [owner |-> 0, waiters |-> {}]]
  /\ read_counter = [k \in Keys |-> 0]
  /\ pc = [p \in Procs |-> "idle"]
  /\ call = [p \in Procs |-> NoCall]
  /\ idx = [p \in Procs |-> 1]
  /\ locked_up_to = [p \in Procs |-> 0]
  /\ phase = [p \in Procs |-> "try"]
  /\ acc = [p \in Procs |-> 0]
  /\ item = [p \in Procs |-> 0]
  /\ result = [p \in Procs |-> "none"]
  /\ now = 0
  /\ timer = [p \in Procs |-> NoTimer]

SetterIdle ==
  /\ integers = <<>>
  /\ setter = [pc |-> "off", value |-> 0, sv |-> 0, si |-> 0, n |-> 0, before |-> <<>>]

CtorIdle ==
  ctor = [pc |-> "off", args |-> <<>>, locks |-> <<>>, todel |-> {}, present |-> {}, n |-> 0]

Threads == 1..NThreads
Handles == 1..NHandles
QueryStrings == {"q1", "q2"}    \* query source strings the Tables compile to

\* a thread outside every call
NoFrame == [pc |-> "idle", op |-> "none", ctx |-> "none", res |-> "none",
            status |-> -1, val |-> <<>>, h |-> 0]

\* a Query object that does not exist (yet)
NoHandle == [query |-> "none", id_ |-> <<>>]

\* no Table operation so far
NoOp == [op |-> "none", a |-> 0, b |-> 0, arg |-> <<>>, res |-> "none", answer |-> "none"]

\* no Table exists, and the objects of Part IV are not in use
TablesOff ==
  /\ tables = <<>>
  /\ bvars = <<>>
  /\ last = NoOp
  /\ written = [p \in Procs |-> 0]
  /\ global_dict = NoOp
  /\ results = NoOp
  /\ swrapper = NoOp
  /\ shared_query = NoOp
  /\ over = NoOp

\* a Session object after __init__: no socket, no lock; no Query objects
SessionOff ==
  /\ TablesOff
  /\ sock = "none"
  /\ session_lock = 0
  /\ in_buffer = <<>>
  /\ out_buffer = 0
  /\ authenticated = FALSE
  /\ thread = [t \in Threads |-> NoFrame]
  /\ handle = [h \in Handles |-> NoHandle]
  /\ queries = [q \in QueryStrings |-> 0]
  /\ scope = "out"
  /\ exit_log = <<>>

Init == LockInit /\ SetterIdle /\ CtorIdle /\ SessionOff

\* positions at which a process is inside X.acquire() / `with X:` entry
WriteAcqPcs == {"ro_wl", "rw_wl", "ml_acq"}
CondAcqPcs == {"ro_cl", "ro_fin_cl", "rw_cl", "tw_cl", "mw_reacq"}
AcqPcs == WriteAcqPcs \cup CondAcqPcs

\* positions at which a process is inside X.release() / `with X:` exit
WriteRelPcs == {"ro_wl_rel", "rw_wl_rel", "ml_rel"}
CondRelPcs == {"ro_cl_rel", "ro_fin_rel", "rw_cl_rel", "tw_cl_rel", "mw_rel"}
RelPcs == WriteRelPcs \cup CondRelPcs

\* the holder of the primitive of key k that p's current with/acquire/release is about
Holder(p, k) == IF pc[p] \in WriteAcqPcs \cup WriteRelPcs
                THEN write_lock[k] ELSE read_condition[k].owner

\* the primitive being acquired or released gets holder h
SetHolder(p, k, h) ==
  IF pc[p] \in WriteAcqPcs \cup WriteRelPcs
  THEN /\ write_lock' = [write_lock EXCEPT ![k] = h]
       /\ UNCHANGED read_condition
  ELSE /\ read_condition' = [read_condition EXCEPT ![k].owner = h]
       /\ UNCHANGED write_lock

\* a mutant of TryAcquire: the result of lock.acquire(blocking=False) is not tested
TryAcquireUnchecked(p, k) == TRUE

\* MultiLock.acquire: lock.acquire(blocking=False) returns True iff the lock is free
TryAcquire(p, k) == Holder(p, k) = 0

\* a mutant of UndoCount: self.locks[:locked_up_to - 1]
UndoCountShort(p) == locked_up_to[p] - 1

\* MultiLock.acquire: how many locks `for elock in self.locks[:locked_up_to]` releases
UndoCount(p) == locked_up_to[p]

\* MultiLock.wait / wait_for: `while timeout == None or timeout > cur_time - start_time`
WhileContinues(t) == ~t.timed \/ t.timeout > t.cur_time - t.start_time

\* MultiLock.wait / wait_for: the value returned after the loop
WaitResult(t) == ~(t.timed /\ t.timeout <= t.cur_time - t.start_time)

\* MultiLock.wait / wait_for: the slice timeout/10 (0.001 s without a timeout,
\* which is below the resolution of the clock of this model)
Slice(t) == IF t.timed THEN t.timeout \div 10 ELSE 0

\* a mutant of AfterAcquire: locked_rw does not wait for the readers
AfterAcquireNoWait(p) ==
  CASE pc[p] = "ro_wl" -> "ro_cl"
    [] pc[p] = "ro_cl" -> "ro_inc"
    [] pc[p] = "ro_fin_cl" -> "ro_dec"
    [] pc[p] = "rw_wl" -> "rw_cl"
    [] pc[p] = "rw_cl" -> "rw_cl_rel"
    [] pc[p] = "tw_cl" -> "mw_start"
    [] pc[p] = "mw_reacq" -> IF call[p].kind = "rw" THEN "rw_cl_rel" ELSE "tw_cl_rel"
    [] pc[p] = "ml_acq" -> "ml_held"

\* control flow of locked_ro.new_method / locked_rw.new_method after an acquire
AfterAcquire(p) ==
  CASE pc[p] = "ro_wl" -> "ro_cl"
    [] pc[p] = "ro_cl" -> "ro_inc"
    [] pc[p] = "ro_fin_cl" -> "ro_dec"
    [] pc[p] = "rw_wl" -> "rw_cl"
    [] pc[p] = "rw_cl" -> IF call[p].multi THEN "mw_start" ELSE "rw_wait"
    [] pc[p] = "tw_cl" -> "mw_start"
    [] pc[p] = "mw_reacq" -> IF call[p].kind = "rw" THEN "rw_cl_rel" ELSE "tw_cl_rel"
    [] pc[p] = "ml_acq" -> "ml_held"

\* what follows the finally block of locked_ro: the plain wrapper has returned
\* the generator object, which the caller now consumes
AfterReadExit(p) ==
  IF call[p].method = "generator_function" /\ ~StreamWrapped(call[p].method)
  THEN "stream" ELSE "idle"

\* what follows the entry block of locked_ro
AfterReadEntry(p) ==
  IF StreamWrapped(call[p].method) THEN "stream" ELSE "ro_body"

\* a mutant of AfterRelease: locked_ro runs the body inside `with self.write_lock`
AfterReleaseBodyInside(p) ==
  CASE pc[p] = "ro_cl_rel" -> AfterReadEntry(p)
    [] pc[p] = "ro_wl_rel" -> AfterReadExit(p)
    [] pc[p] = "ro_fin_rel" -> "ro_wl_rel"
    [] pc[p] = "rw_cl_rel" -> "rw_body"
    [] pc[p] = "rw_wl_rel" -> "idle"
    [] pc[p] = "tw_cl_rel" -> "idle"
    [] pc[p] = "ml_rel" -> "idle"
    [] pc[p] = "mw_rel" -> IF WhileContinues(timer[p]) THEN "mw_lock" ELSE "mw_reacq"

\* control flow after a release
AfterRelease(p) ==
  CASE pc[p] = "ro_cl_rel" -> "ro_wl_rel"
    [] pc[p] = "ro_wl_rel" -> AfterReadEntry(p)
    [] pc[p] = "ro_fin_rel" -> AfterReadExit(p)
    [] pc[p] = "rw_cl_rel" -> "rw_body"
    [] pc[p] = "rw_wl_rel" -> "idle"
    [] pc[p] = "tw_cl_rel" -> "idle"
    [] pc[p] = "ml_rel" -> "idle"
    [] pc[p] = "mw_rel" -> IF WhileContinues(timer[p]) THEN "mw_lock" ELSE "mw_reacq"

\* the process moves on; a finished call leaves no locals behind
Return(p, to) ==
  /\ pc' = [pc EXCEPT ![p] = to]
  /\ call' = IF to = "idle" THEN [call EXCEPT ![p] = NoCall] ELSE call
  /\ timer' = IF to = "idle" THEN [timer EXCEPT ![p] = NoTimer] ELSE timer

\* the parts of the state that belong to the other specifications
UnchangedRest ==
  UNCHANGED <<integers, setter, ctor, sock, session_lock, in_buffer, out_buffer,
              authenticated, thread, handle, queries, scope, exit_log,
              tables, bvars, last, written,
              global_dict, results, swrapper, shared_query, over>>

(* ------------------- actions: locked_ro, locked_rw --------------------- *)

\* a process calls a locked_ro- or locked_rw-wrapped method of an Accessor;
\* the locked_rw methods of Accessor and Table are all plain functions
CallMethod(p, kinds, methods) ==
  /\ pc[p] = "idle"
  /\ \E a \in Accessors, kind \in kinds, m \in methods :
       /\ kind = "rw" => m = "function"
       /\ call' = [call EXCEPT ![p] = [kind |-> kind, keys |-> a.keys, multi |-> a.multi,
                                       method |-> m, blocking |-> TRUE]]
       /\ pc' = [pc EXCEPT ![p] = IF kind = "ro" THEN "ro_wl" ELSE "rw_wl"]
  /\ UNCHANGED <<write_lock, read_condition, read_counter, idx, locked_up_to, phase,
                 acc, item, result, now, timer>>
  /\ UnchangedRest

Call(p) == CallMethod(p, {"ro", "rw"}, {"function", "generator_function"})

\* Lock.acquire() / Condition.acquire() of a single-key accessor: blocks until free
LockAcquire(p) ==
  /\ pc[p] \in AcqPcs
  /\ ~call[p].multi
  /\ Holder(p, call[p].keys[1]) = 0
  /\ SetHolder(p, call[p].keys[1], p)
  /\ pc' = [pc EXCEPT ![p] = AfterAcquire(p)]
  /\ UNCHANGED <<read_counter, call, idx, locked_up_to, phase, acc, item, result, now, timer>>
  /\ UnchangedRest

\* what a direct caller of MultiLock.acquire / wait / wait_for gets back when
\* the acquire that ends the call succeeds
AcquireResult(p) ==
  CASE pc[p] = "ml_acq" -> [result EXCEPT ![p] = "True"]
    [] pc[p] = "mw_reacq" /\ call[p].kind \in {"wait", "wait_for"} ->
         [result EXCEPT ![p] = IF WaitResult(timer[p]) THEN "True" ELSE "False"]
    [] OTHER -> result

\* MultiLock.acquire: lock.acquire(blocking=False) succeeded; after the last
\* lock the for-else returns True
MultiTryOk(p) ==
  /\ pc[p] \in AcqPcs
  /\ call[p].multi
  /\ phase[p] = "try"
  /\ TryAcquire(p, call[p].keys[idx[p]])
  /\ SetHolder(p, call[p].keys[idx[p]], p)
  /\ IF idx[p] = Len(call[p].keys)
     THEN /\ pc' = [pc EXCEPT ![p] = AfterAcquire(p)]
          /\ idx' = [idx EXCEPT ![p] = 1]
          /\ locked_up_to' = [locked_up_to EXCEPT ![p] = 0]
          /\ result' = AcquireResult(p)
     ELSE /\ idx' = [idx EXCEPT ![p] = idx[p] + 1]
          /\ locked_up_to' = [locked_up_to EXCEPT ![p] = locked_up_to[p] + 1]
          /\ UNCHANGED <<pc, result>>
  /\ UNCHANGED <<read_counter, call, phase, acc, item, now, timer>>
  /\ UnchangedRest

\* MultiLock.acquire, after the locks taken in this attempt are released:
\* blocking: locked_up_to = 0; break (the while loop starts over);
\* not blocking: return False
AttemptOver(p) ==
  /\ idx' = [idx EXCEPT ![p] = 1]
  /\ phase' = [phase EXCEPT ![p] = "try"]
  /\ IF call[p].blocking
     THEN /\ locked_up_to' = [locked_up_to EXCEPT ![p] = 0]
          /\ UNCHANGED <<pc, result>>
     ELSE /\ pc' = [pc EXCEPT ![p] = "ml_ret"]
          /\ result' = [result EXCEPT ![p] = "False"]
          /\ UNCHANGED locked_up_to

\* MultiLock.acquire: lock.acquire(blocking=False) failed; the locks taken so
\* far are released one by one (MultiUndo)
MultiTryFail(p) ==
  /\ pc[p] \in AcqPcs
  /\ call[p].multi
  /\ phase[p] = "try"
  /\ ~TryAcquire(p, call[p].keys[idx[p]])
  /\ IF UndoCount(p) <= 0
     THEN AttemptOver(p)
     ELSE /\ idx' = [idx EXCEPT ![p] = 1]
          /\ phase' = [phase EXCEPT ![p] = "undo"]
          /\ UNCHANGED <<pc, locked_up_to, result>>
  /\ UNCHANGED <<write_lock, read_condition, read_counter, call, acc, item, now, timer>>
  /\ UnchangedRest

\* MultiLock.acquire: for elock in self.locks[:locked_up_to]: elock.release();
\* in the except clause the exception is raised again afterwards
MultiUndo(p) ==
  /\ pc[p] \in AcqPcs
  /\ call[p].multi
  /\ phase[p] \in {"undo", "undo_raise"}
  /\ SetHolder(p, call[p].keys[idx[p]], 0)
  /\ IF idx[p] < (IF phase[p] = "undo" THEN UndoCount(p) ELSE locked_up_to[p])
     THEN /\ idx' = [idx EXCEPT ![p] = idx[p] + 1]
          /\ UNCHANGED <<pc, locked_up_to, phase, result>>
     ELSE IF phase[p] = "undo"
          THEN AttemptOver(p)
          ELSE /\ idx' = [idx EXCEPT ![p] = 1]
               /\ phase' = [phase EXCEPT ![p] = "try"]
               /\ pc' = [pc EXCEPT ![p] = "ml_ret"]
               /\ result' = [result EXCEPT ![p] = "raised"]
               /\ UNCHANGED locked_up_to
  /\ UNCHANGED <<read_counter, call, acc, item, now, timer>>
  /\ UnchangedRest

\* Lock.release() / Condition.release() / MultiLock.release(): one underlying
\* release per step
Release(p) ==
  /\ pc[p] \in RelPcs
  /\ SetHolder(p, call[p].keys[idx[p]], 0)
  /\ IF idx[p] = Len(call[p].keys)
     THEN /\ idx' = [idx EXCEPT ![p] = 1]
          /\ Return(p, AfterRelease(p))
     ELSE /\ idx' = [idx EXCEPT ![p] = idx[p] + 1]
          /\ UNCHANGED <<pc, call, timer>>
  /\ UNCHANGED <<read_counter, locked_up_to, phase, acc, item, result, now>>
  /\ UnchangedRest

\* a mutant of CounterAdd: a composite reader is counted on its first key only
CounterAddFirst(p, sign) ==
  read_counter' = [read_counter EXCEPT ![call[p].keys[1]] = @ + sign]

\* self.read_counter.value += d: on a MultiInt through its setter with
\* d = +-increment; on a manager Value, which has no increment, with d = +-1
CounterAdd(p, sign) ==
  LET ks == call[p].keys
      ints == CounterValues(read_counter, ks)
      v == MultiIntValue(ints) + sign * MultiIntIncrement(ints)
  IN IF call[p].multi
     THEN /\ ~MultiIntRaises(ints, v)
          /\ read_counter' = MultiIntSet(read_counter, ks, v)
     ELSE read_counter' = [read_counter EXCEPT ![ks[1]] = @ + sign]

\* locked_ro entry: the reader count goes up, under write lock and condition
ReadIncrement(p) ==
  /\ pc[p] = "ro_inc"
  /\ CounterAdd(p, 1)
  /\ pc' = [pc EXCEPT ![p] = "ro_cl_rel"]
  /\ UNCHANGED <<write_lock, read_condition, call, idx, locked_up_to, phase, acc, item,
                 result, now, timer>>
  /\ UnchangedRest

\* locked_ro: old_method(self, ...) of the plain wrapper: runs the body of a
\* function, or only creates the generator object of a generator function
ReadBody(p) ==
  /\ pc[p] = "ro_body"
  /\ pc' = [pc EXCEPT ![p] = "ro_fin_cl"]
  /\ UNCHANGED <<write_lock, read_condition, read_counter, call, idx, locked_up_to, phase,
                 acc, item, result, now, timer>>
  /\ UnchangedRest

\* locked_ro finally: the reader count goes down, under the condition
ReadDecrement(p) ==
  /\ pc[p] = "ro_dec"
  /\ CounterAdd(p, -1)
  /\ pc' = [pc EXCEPT ![p] = "ro_notify"]
  /\ UNCHANGED <<write_lock, read_condition, call, idx, locked_up_to, phase, acc, item,
                 result, now, timer>>
  /\ UnchangedRest

\* a mutant of Notified: notify() wakes nobody
NotifiedNobody(cond) == {cond}

\* Condition.notify(): the condition after one waiter, if there is one, is woken
Notified(cond) ==
  IF cond.waiters = {} THEN {cond}
  ELSE {[cond EXCEPT !.waiters = @ \ {w}] : w \in cond.waiters}

\* locked_ro finally: self.read_condition.notify(); MultiLock.notify calls
\* notify on every underlying condition in turn
ReadNotify(p) ==
  /\ pc[p] = "ro_notify"
  /\ \E c \in Notified(read_condition[call[p].keys[idx[p]]]) :
       read_condition' = [read_condition EXCEPT ![call[p].keys[idx[p]]] = c]
  /\ IF idx[p] = Len(call[p].keys)
     THEN /\ idx' = [idx EXCEPT ![p] = 1]
          /\ pc' = [pc EXCEPT ![p] = "ro_fin_rel"]
     ELSE /\ idx' = [idx EXCEPT ![p] = idx[p] + 1]
          /\ UNCHANGED pc
  /\ UNCHANGED <<write_lock, read_counter, call, locked_up_to, phase, acc, item, result,
                 now, timer>>
  /\ UnchangedRest

\* the caller draws the next item from the generator of a wrapped method:
\* the body of the generator function runs up to its next yield
StreamItem(p) ==
  /\ pc[p] = "stream"
  /\ item[p] < StreamLen
  /\ item' = [item EXCEPT ![p] = item[p] + 1]
  /\ UNCHANGED <<write_lock, read_condition, read_counter, pc, call, idx, locked_up_to,
                 phase, acc, result, now, timer>>
  /\ UnchangedRest

\* the generator is exhausted (StopIteration)
StreamEnd(p) ==
  /\ pc[p] = "stream"
  /\ item' = [item EXCEPT ![p] = 0]
  /\ Return(p, IF StreamWrapped(call[p].method) THEN "ro_fin_cl" ELSE "idle")
  /\ UNCHANGED <<write_lock, read_condition, read_counter, idx, locked_up_to, phase, acc,
                 result, now>>
  /\ UnchangedRest

\* a mutant of Asleep: the waiter keeps the condition while it sleeps
AsleepHolding(cond, p) == [cond EXCEPT !.waiters = @ \cup {p}]

\* Condition.wait: the waiter releases the condition and sleeps
Asleep(cond, p) == [owner |-> 0, waiters |-> cond.waiters \cup {p}]

\* locked_rw, single key: Condition.wait_for(lambda: read_counter.value == 0)
\* evaluates the predicate holding the condition and, if false, waits
WriteWaitFor(p) ==
  /\ pc[p] = "rw_wait"
  /\ LET k == call[p].keys[1]
     IN IF read_counter[k] = 0
        THEN /\ pc' = [pc EXCEPT ![p] = "rw_cl_rel"]
             /\ UNCHANGED read_condition
        ELSE /\ pc' = [pc EXCEPT ![p] = "rw_sleep"]
             /\ read_condition' = [read_condition EXCEPT ![k] = Asleep(@, p)]
  /\ UNCHANGED <<write_lock, read_counter, call, idx, locked_up_to, phase, acc, item,
                 result, now, timer>>
  /\ UnchangedRest

\* Condition.wait returns after a notify: the waiter re-acquires the condition
WriteWake(p) ==
  /\ pc[p] = "rw_sleep"
  /\ LET k == call[p].keys[1]
     IN /\ p \notin read_condition[k].waiters
        /\ read_condition[k].owner = 0
        /\ read_condition' = [read_condition EXCEPT ![k].owner = p]
  /\ pc' = [pc EXCEPT ![p] = "rw_wait"]
  /\ UNCHANGED <<write_lock, read_counter, call, idx, locked_up_to, phase, acc, item,
                 result, now, timer>>
  /\ UnchangedRest

\* locked_rw: old_method(self, ...) runs holding the write lock
WriteBody(p) ==
  /\ pc[p] = "rw_body"
  /\ pc' = [pc EXCEPT ![p] = "rw_wl_rel"]
  /\ UNCHANGED <<write_lock, read_condition, read_counter, call, idx, locked_up_to, phase,
                 acc, item, result, now, timer>>
  /\ UnchangedRest

(* ------------- actions: MultiLock.wait and MultiLock.wait_for ---------- *)

\* MultiLock.wait / wait_for: `cur_time = start_time`, before the loop and in
\* the for-else branch
CurTime(t) == t.start_time

\* MultiLock.wait / wait_for: start_time = time(); cur_time = start_time, then
\* self.release()
MultiWaitStart(p) ==
  /\ pc[p] = "mw_start"
  /\ timer' = [timer EXCEPT ![p] = [@ EXCEPT !.start_time = now, !.cur_time = now]]
  /\ pc' = [pc EXCEPT ![p] = "mw_rel"]
  /\ UNCHANGED <<write_lock, read_condition, read_counter, call, idx, locked_up_to, phase,
                 acc, item, result, now>>
  /\ UnchangedRest

\* MultiLock.wait / wait_for: `with lock:` on the idx-th underlying condition
MultiWaitLock(p) ==
  /\ pc[p] = "mw_lock"
  /\ LET k == call[p].keys[idx[p]]
     IN /\ read_condition[k].owner = 0
        /\ read_condition' = [read_condition EXCEPT ![k].owner = p]
  /\ pc' = [pc EXCEPT ![p] = "mw_locked"]
  /\ UNCHANGED <<write_lock, read_counter, call, idx, locked_up_to, phase, acc, item,
                 result, now, timer>>
  /\ UnchangedRest

\* the predicate self.read_counter.value == 0 on a MultiInt reads the
\* underlying counters one after the other; locked_up_to counts the reads
MultiWaitRead(p) ==
  /\ pc[p] \in {"mw_locked", "mw_expired"}
  /\ call[p].kind # "wait"
  /\ locked_up_to[p] + 1 < Len(call[p].keys)
  /\ acc' = [acc EXCEPT ![p] = acc[p] + read_counter[call[p].keys[locked_up_to[p] + 1]]]
  /\ locked_up_to' = [locked_up_to EXCEPT ![p] = locked_up_to[p] + 1]
  /\ UNCHANGED <<write_lock, read_condition, read_counter, pc, call, idx, phase, item,
                 result, now, timer>>
  /\ UnchangedRest

\* ConditionProxy.wait_for(predicate, timeout=slice): the last read decides;
\* true: return True; false: wait for what is left of the slice, or, when
\* the slice is over ("mw_expired"), return False
MultiWaitPredicate(p) ==
  /\ pc[p] \in {"mw_locked", "mw_expired"}
  /\ call[p].kind # "wait"
  /\ locked_up_to[p] + 1 = Len(call[p].keys)
  /\ LET k == call[p].keys[idx[p]]
         total == acc[p] + read_counter[call[p].keys[locked_up_to[p] + 1]]
     IN IF total = 0
        THEN /\ pc' = [pc EXCEPT ![p] = "mw_found"]
             /\ UNCHANGED read_condition
        ELSE IF pc[p] = "mw_locked"
             THEN /\ pc' = [pc EXCEPT ![p] = "mw_sleep"]
                  /\ read_condition' = [read_condition EXCEPT ![k] =
                                          [owner |-> 0, waiters |-> @.waiters \cup {p}]]
             ELSE /\ pc' = [pc EXCEPT ![p] = "mw_next"]
                  /\ UNCHANGED read_condition
  /\ acc' = [acc EXCEPT ![p] = 0]
  /\ locked_up_to' = [locked_up_to EXCEPT ![p] = 0]
  /\ UNCHANGED <<write_lock, read_counter, call, idx, phase, item, result, now, timer>>
  /\ UnchangedRest

\* MultiLock.wait: lock.wait(timeout=slice) releases the condition and waits
MultiWaitSleep(p) ==
  /\ pc[p] = "mw_locked"
  /\ call[p].kind = "wait"
  /\ read_condition' = [read_condition EXCEPT ![call[p].keys[idx[p]]] =
                          [owner |-> 0, waiters |-> @.waiters \cup {p}]]
  /\ pc' = [pc EXCEPT ![p] = "mw_sleep"]
  /\ UNCHANGED <<write_lock, read_counter, call, idx, locked_up_to, phase, acc, item,
                 result, now, timer>>
  /\ UnchangedRest

\* Condition.wait(slice) returns and re-acquires: True after a notify, False
\* when the slice has elapsed (the clock has then advanced by the slice);
\* wait_for evaluates the predicate again after either
MultiWaitWake(p) ==
  /\ pc[p] = "mw_sleep"
  /\ LET k == call[p].keys[idx[p]]
         notified == p \notin read_condition[k].waiters
     IN /\ read_condition[k].owner = 0
        /\ read_condition' = [read_condition EXCEPT ![k] =
                                [owner |-> p, waiters |-> @.waiters \ {p}]]
        /\ IF notified
           THEN UNCHANGED now
           ELSE /\ now + Slice(timer[p]) <= MaxTime
                /\ now' = now + Slice(timer[p])
        /\ pc' = [pc EXCEPT ![p] =
                    IF call[p].kind # "wait"
                    THEN IF notified THEN "mw_locked" ELSE "mw_expired"
                    ELSE IF notified THEN "mw_found" ELSE "mw_next"]
  /\ UNCHANGED <<write_lock, read_counter, call, idx, locked_up_to, phase, acc, item,
                 result, timer>>
  /\ UnchangedRest

\* MultiLock.wait / wait_for: leaving `with lock:`; after True: break, break,
\* and the finally re-acquires the composite; after False: the next lock, or
\* the for-else sets cur_time and the while condition is tested again
MultiWaitUnlock(p) ==
  /\ pc[p] \in {"mw_found", "mw_next"}
  /\ read_condition' = [read_condition EXCEPT ![call[p].keys[idx[p]]].owner = 0]
  /\ IF pc[p] = "mw_found"
     THEN /\ pc' = [pc EXCEPT ![p] = "mw_reacq"]
          /\ idx' = [idx EXCEPT ![p] = 1]
          /\ UNCHANGED timer
     ELSE IF idx[p] < Len(call[p].keys)
          THEN /\ pc' = [pc EXCEPT ![p] = "mw_lock"]
               /\ idx' = [idx EXCEPT ![p] = idx[p] + 1]
               /\ UNCHANGED timer
          ELSE /\ timer' = [timer EXCEPT ![p].cur_time = CurTime(timer[p])]
               /\ idx' = [idx EXCEPT ![p] = 1]
               /\ pc' = [pc EXCEPT ![p] =
                           IF WhileContinues(timer'[p]) THEN "mw_lock" ELSE "mw_reacq"]
  /\ UNCHANGED <<write_lock, read_counter, call, locked_up_to, phase, acc, item, result, now>>
  /\ UnchangedRest

\* timeouts of the direct calls of wait / wait_for, in clock units
Timeouts == {Timeout}

\* `with cond: cond.wait(timeout)` or `with cond: cond.wait_for(predicate,
\* timeout)` on the MultiLock of read conditions of a composite accessor, the
\* predicate being that of locked_rw; one such call at a time, so that the
\* clock, which advances by the slices that time out, measures the time the
\* caller has spent waiting
CallWait(p) ==
  /\ pc[p] = "idle"
  /\ \A q \in Procs : call[q].kind \notin {"wait", "wait_for"}
  /\ \E a \in {b \in Accessors : b.multi}, kind \in {"wait", "wait_for"}, t \in Timeouts :
       /\ call' = [call EXCEPT ![p] = [kind |-> kind, keys |-> a.keys, multi |-> TRUE,
                                       method |-> "function", blocking |-> TRUE]]
       /\ timer' = [timer EXCEPT ![p] = [timed |-> TRUE, timeout |-> t,
                                         start_time |-> 0, cur_time |-> 0]]
  /\ pc' = [pc EXCEPT ![p] = "tw_cl"]
  /\ result' = [result EXCEPT ![p] = "none"]
  /\ UNCHANGED <<write_lock, read_condition, read_counter, idx, locked_up_to, phase, acc,
                 item, now>>
  /\ UnchangedRest

\* readers next to the callers of wait / wait_for
CallRead(p) == CallMethod(p, {"ro"}, {"function"})

(* ---------- actions: MultiLock.acquire and release, called directly ----- *)

\* MultiLock(...).acquire(blocking) on the write locks of some keys
CallAcquire(p) ==
  /\ pc[p] = "idle"
  /\ \E ks \in LockLists, b \in BOOLEAN :
       call' = [call EXCEPT ![p] = [kind |-> "acquire", keys |-> ks, multi |-> TRUE,
                                    method |-> "function", blocking |-> b]]
  /\ pc' = [pc EXCEPT ![p] = "ml_acq"]
  /\ result' = [result EXCEPT ![p] = "none"]
  /\ locked_up_to' = [locked_up_to EXCEPT ![p] = 0]
  /\ UNCHANGED <<write_lock, read_condition, read_counter, idx, phase, acc, item, now, timer>>
  /\ UnchangedRest

\* MultiLock.acquire: lock.acquire(blocking=False) raises; the except clause
\* releases self.locks[:locked_up_to] and raises again
MultiTryRaise(p) ==
  /\ pc[p] = "ml_acq"
  /\ phase[p] = "try"
  /\ IF locked_up_to[p] = 0
     THEN /\ pc' = [pc EXCEPT ![p] = "ml_ret"]
          /\ result' = [result EXCEPT ![p] = "raised"]
          /\ idx' = [idx EXCEPT ![p] = 1]
          /\ UNCHANGED phase
     ELSE /\ phase' = [phase EXCEPT ![p] = "undo_raise"]
          /\ idx' = [idx EXCEPT ![p] = 1]
          /\ UNCHANGED <<pc, result>>
  /\ UNCHANGED <<write_lock, read_condition, read_counter, call, locked_up_to, acc, item,
                 now, timer>>
  /\ UnchangedRest

\* the caller that got True calls MultiLock.release()
CallRelease(p) ==
  /\ pc[p] = "ml_held"
  /\ pc' = [pc EXCEPT ![p] = "ml_rel"]
  /\ UNCHANGED <<write_lock, read_condition, read_counter, call, idx, locked_up_to, phase,
                 acc, item, result, now, timer>>
  /\ UnchangedRest

\* the caller that got False or an exception goes on without the locks
AcquireFailed(p) ==
  /\ pc[p] = "ml_ret"
  /\ Return(p, "idle")
  /\ locked_up_to' = [locked_up_to EXCEPT ![p] = 0]
  /\ UNCHANGED <<write_lock, read_condition, read_counter, idx, phase, acc, item, result, now>>
  /\ UnchangedRest

(* ------------------- actions: MultiInt.value setter --------------------- *)

\* no process is inside a call on the locks
LockIdle ==
  UNCHANGED <<write_lock, read_condition, read_counter, pc, call, idx, locked_up_to,
              phase, acc, item, result, now, timer, sock, session_lock, in_buffer,
              out_buffer, authenticated, thread, handle, queries, scope, exit_log,
              tables, bvars, last, written,
              global_dict, results, swrapper, shared_query, over>>

\* a MultiInt over 1..MaxInts counters holding small values
SetterInit ==
  /\ integers \in UNION {[1..n -> -MaxVal..MaxVal] : n \in 1..MaxInts}
  /\ setter = [pc |-> "idle", value |-> 0, sv |-> 0, si |-> 0, n |-> 0, before |-> <<>>]

\* multi_int.value = v
SetterCall ==
  /\ setter.pc = "idle"
  /\ \E v \in -MaxVal..MaxVal :
       setter' = [setter EXCEPT !.pc = "check", !.value = v, !.before = integers]
  /\ UNCHANGED integers
  /\ LockIdle
  /\ UNCHANGED ctor

\* if (value - self.value) % self.increment: raise ValueError;
\* sv = self.value; si = self.increment
SetterCheck ==
  /\ setter.pc = "check"
  /\ IF MultiIntRaises(integers, setter.value)
     THEN setter' = [setter EXCEPT !.pc = "raised"]
     ELSE setter' = [setter EXCEPT !.pc = "loop", !.sv = MultiIntValue(integers),
                                   !.si = MultiIntIncrement(integers), !.n = 1]
  /\ UNCHANGED integers
  /\ LockIdle
  /\ UNCHANGED ctor

\* for integer in self.integers: integer.value += (value - sv) // si
SetterAdd ==
  /\ setter.pc = "loop"
  /\ integers' = [integers EXCEPT ![setter.n] = @ + ((setter.value - setter.sv) \div setter.si)]
  /\ setter' = IF setter.n = Len(integers)
               THEN [setter EXCEPT !.pc = "done"]
               ELSE [setter EXCEPT !.n = @ + 1]
  /\ LockIdle
  /\ UNCHANGED ctor

\* the assignment has returned or raised; the next one may follow
SetterReturn ==
  /\ setter.pc \in {"done", "raised"}
  /\ setter' = [setter EXCEPT !.pc = "idle"]
  /\ UNCHANGED integers
  /\ LockIdle
  /\ UNCHANGED ctor

(* --------------------- actions: MultiLock.__init__ ---------------------- *)

\* lock objects, and MultiLock objects given by their (duplicate-free) .locks
LockObjects == 1..NLocks

CtorArgs ==
  [multi : {FALSE}, locks : {<<l>> : l \in LockObjects}]
    \cup [multi : {TRUE},
          locks : {s \in UNION {[1..n -> LockObjects] : n \in 1..MaxArgs} :
                     \A i, j \in DOMAIN s : i # j => s[i] # s[j]}]

\* id(lock): the address of the object, far above every list index
Id(lock) == MaxArgs * (NLocks + MaxArgs) + lock

\* MultiLock(*locks) is called with 1..MaxArgs arguments
CtorInit ==
  ctor \in [pc : {"flatten"}, args : UNION {[1..n -> CtorArgs] : n \in 1..MaxArgs},
            locks : {<<>>}, todel : {{}}, present : {{}}, n : {1}]

\* for lock in locks: self.locks.extend(lock.locks), or, when the argument
\* has no attribute locks, self.locks.append(lock)
CtorFlatten ==
  /\ ctor.pc = "flatten"
  /\ ctor' = [ctor EXCEPT !.locks = @ \o ctor.args[ctor.n].locks,
                          !.n = IF ctor.n = Len(ctor.args) THEN 1 ELSE @ + 1,
                          !.pc = IF ctor.n = Len(ctor.args) THEN "scan" ELSE @]
  /\ LockIdle
  /\ UNCHANGED <<integers, setter>>

\* for n, lock in enumerate(self.locks): id(lock) goes to todel when it is in
\* present already, and to present otherwise
CtorScan ==
  /\ ctor.pc = "scan"
  /\ LET i == Id(ctor.locks[ctor.n])
     IN ctor' = [ctor EXCEPT !.todel = IF i \in ctor.present THEN @ \cup {i} ELSE @,
                             !.present = @ \cup {i},
                             !.n = @ + 1,
                             !.pc = IF ctor.n = Len(ctor.locks) THEN "delete" ELSE @]
  /\ LockIdle
  /\ UNCHANGED <<integers, setter>>

\* del s[n] for a 0-based n: IndexError unless -len(s) <= n < len(s)
DelIndexError(s, n) == ~(-Len(s) <= n /\ n < Len(s))

\* del s[n]
DelAt(s, n) ==
  LET i == IF n < 0 THEN n + Len(s) + 1 ELSE n + 1
  IN [j \in 1..(Len(s) - 1) |-> IF j < i THEN s[j] ELSE s[j + 1]]

\* for n in reversed(sorted(todel)): del self.locks[n]
CtorDelete ==
  /\ ctor.pc = "delete"
  /\ IF ctor.todel = {}
     THEN ctor' = [ctor EXCEPT !.pc = "done"]
     ELSE LET n == CHOOSE m \in ctor.todel : \A o \in ctor.todel : o <= m
          IN IF DelIndexError(ctor.locks, n)
             THEN ctor' = [ctor EXCEPT !.pc = "IndexError"]
             ELSE ctor' = [ctor EXCEPT !.locks = DelAt(@, n), !.todel = @ \ {n}]
  /\ LockIdle
  /\ UNCHANGED <<integers, setter>>

(* --------------------------- specifications ---------------------------- *)

\* a step of a process inside a locked_ro / locked_rw call
Step(p) ==
  \/ LockAcquire(p)
  \/ MultiTryOk(p)
  \/ MultiTryFail(p)
  \/ MultiUndo(p)
  \/ Release(p)
  \/ ReadIncrement(p)
  \/ ReadBody(p)
  \/ ReadDecrement(p)
  \/ ReadNotify(p)
  \/ StreamItem(p)
  \/ StreamEnd(p)
  \/ WriteWaitFor(p)
  \/ WriteWake(p)
  \/ MultiWaitStart(p)
  \/ MultiWaitLock(p)
  \/ MultiWaitRead(p)
  \/ MultiWaitPredicate(p)
  \/ MultiWaitWake(p)
  \/ MultiWaitUnlock(p)
  \/ WriteBody(p)

Next == \E p \in Procs : Call(p) \/ Step(p)

Spec == Init /\ [][Next]_vars

\* every process that can take a step of its call eventually takes one
FairSpec == Spec /\ \A p \in Procs : WF_vars(Step(p))

NextMultiLock ==
  \E p \in Procs :
    \/ CallAcquire(p)
    \/ MultiTryOk(p)
    \/ MultiTryFail(p)
    \/ MultiTryRaise(p)
    \/ MultiUndo(p)
    \/ CallRelease(p)
    \/ Release(p)
    \/ AcquireFailed(p)

SpecMultiLock == Init /\ [][NextMultiLock]_vars

NextWait ==
  \E p \in Procs :
    \/ CallWait(p)
    \/ CallRead(p)
    \/ LockAcquire(p)
    \/ MultiTryOk(p)
    \/ MultiTryFail(p)
    \/ MultiUndo(p)
    \/ Release(p)
    \/ ReadIncrement(p)
    \/ ReadBody(p)
    \/ ReadDecrement(p)
    \/ ReadNotify(p)
    \/ MultiWaitStart(p)
    \/ MultiWaitLock(p)
    \/ MultiWaitRead(p)
    \/ MultiWaitPredicate(p)
    \/ MultiWaitSleep(p)
    \/ MultiWaitWake(p)
    \/ MultiWaitUnlock(p)

SpecWait == Init /\ [][NextWait]_vars

NextMultiInt == SetterCall \/ SetterCheck \/ SetterAdd \/ SetterReturn

InitMultiInt == LockInit /\ SetterInit /\ CtorIdle /\ SessionOff

SpecMultiInt == InitMultiInt /\ [][NextMultiInt]_vars

NextCtor == CtorFlatten \/ CtorScan \/ CtorDelete

InitCtor == LockInit /\ SetterIdle /\ CtorInit /\ SessionOff

SpecCtor == InitCtor /\ [][NextCtor]_vars

(* ------------------------------ claims -------------------------------- *)

\* p is a writer inside the body of a locked_rw method
InWriteBody(p) == call[p].kind = "rw" /\ pc[p] = "rw_body"

\* p is a reader between the increment and the decrement of the reader count
InReadSection(p) ==
  call[p].kind = "ro" /\ pc[p] \in {"ro_cl_rel", "ro_wl_rel", "ro_body", "ro_fin_cl", "ro_dec"}

\* the accessors of p and q share a key
Overlap(p, q) == KeySet(call[p]) \cap KeySet(call[q]) # {}

\* C1: for every key, at most one locked_rw caller whose key set (single or
\* composite) contains it is executing the wrapped method body at any time.
C1_WritersExclusive ==
  \A p, q \in Procs : p # q /\ InWriteBody(p) /\ InWriteBody(q) => ~Overlap(p, q)

\* a composite writer is in its body while another writer of one of its keys
\* is still trying to take the write lock
C1_Witness ==
  \E p, q \in Procs :
    /\ p # q /\ InWriteBody(p) /\ call[p].multi /\ Len(call[p].keys) = 2
    /\ call[q].kind = "rw" /\ pc[q] = "rw_wl" /\ Overlap(p, q)

\* C2: while the body of a locked_rw method runs for key k, the reader count
\* of k (every underlying counter of a composite) is 0, and so is it from the
\* moment wait_for has seen 0 under the write lock.
C2_NoReadersDuringWrite ==
  \A p \in Procs :
    call[p].kind = "rw" /\ pc[p] \in {"rw_cl_rel", "rw_body"}
      => \A k \in KeySet(call[p]) : read_counter[k] = 0

\* a writer is in its body while a reader of the same key is held back at the
\* write lock, unable to increment the count
C2_Witness ==
  \E p, q \in Procs :
    /\ InWriteBody(p)
    /\ call[q].kind = "ro" /\ pc[q] = "ro_wl" /\ Overlap(p, q)

\* C3: while the caller consumes the stream that a wrapped iterator-producing
\* method returned, the reader count of its keys stays incremented and no
\* writer of those keys is in its body.
C3_StreamLocked ==
  \A p \in Procs :
    pc[p] = "stream"
      => /\ \A k \in KeySet(call[p]) : read_counter[k] >= 1
         /\ \A q \in Procs : q # p /\ InWriteBody(q) => ~Overlap(p, q)

\* C4: a composite accessor over documents {A, B} counts its reader on the
\* counters of exactly A and B, and while that reader is in its critical
\* section no writer of A or of B, single or composite, is in its body.
C4_ProductReadExcludesWriters ==
  \A p \in Procs :
    call[p].multi /\ InReadSection(p)
      => /\ \A k \in KeySet(call[p]) : read_counter[k] >= 1
         /\ \A q \in Procs : InWriteBody(q) => ~Overlap(p, q)

\* a read over {x, y} is in its body while a single-key writer of one of the
\* two documents holds the write lock and waits for the count to reach 0
C4_Witness ==
  \E p, q \in Procs :
    /\ call[p].multi /\ Len(call[p].keys) = 2 /\ call[p].kind = "ro" /\ pc[p] = "ro_body"
    /\ call[q].kind = "rw" /\ ~call[q].multi /\ pc[q] = "rw_sleep"

\* C5: from the return of True until release the caller of MultiLock.acquire
\* holds every underlying lock; after False or an exception, and whenever an
\* attempt starts over, it holds none of them.
C5_AllOrNothing ==
  \A p \in Procs :
    /\ pc[p] = "ml_held" => \A k \in KeySet(call[p]) : write_lock[k] = p
    /\ pc[p] = "ml_ret" => \A k \in Keys : write_lock[k] # p
    /\ pc[p] = "ml_acq" /\ phase[p] = "try" /\ idx[p] = 1
         => \A k \in Keys : write_lock[k] # p

\* a non-blocking acquire has returned False after taking some of the locks
C5_Witness ==
  \E p \in Procs : pc[p] = "ml_ret" /\ result[p] = "False" /\ locked_up_to[p] >= 1

\* the locks the arguments of MultiLock.__init__ stand for
CtorArgLocks ==
  UNION {{ctor.args[i].locks[j] : j \in DOMAIN ctor.args[i].locks} : i \in DOMAIN ctor.args}

\* C6: MultiLock.__init__ ends without an exception, with every distinct
\* lock of its arguments exactly once in self.locks.
C6_Deduplicated ==
  ctor.pc \in {"done", "IndexError"}
    => /\ ctor.pc = "done"
       /\ {ctor.locks[i] : i \in DOMAIN ctor.locks} = CtorArgLocks
       /\ \A i, j \in DOMAIN ctor.locks : i # j => ctor.locks[i] # ctor.locks[j]

\* p is inside the while loop of MultiLock.wait / wait_for called with a timeout
InTimedWait(p) ==
  /\ call[p].kind \in {"wait", "wait_for"}
  /\ timer[p].timed
  /\ pc[p] \in {"mw_lock", "mw_locked", "mw_sleep", "mw_expired", "mw_next"}

\* C7: a MultiLock.wait / wait_for with timeout t that has got no notification
\* (no true predicate) leaves its loop at the first test of the loop condition
\* after t has elapsed, that is at most one round of slices after t.
C7_TimeoutHonoured ==
  \A p \in Procs :
    InTimedWait(p)
      => now - timer[p].start_time
           < timer[p].timeout + Len(call[p].keys) * Slice(timer[p])

\* C8: after multi_int.value = v has returned, (v - sum) was N * d for an
\* integer d, every underlying counter has changed by d and the value reads v;
\* after it has raised, (v - sum) was no multiple of N and no counter changed.
C8_SetterExact ==
  LET N == Len(setter.before)
      delta == setter.value - SumSeq(setter.before)
      Quotients == {d \in -(2 * MaxVal * MaxInts)..(2 * MaxVal * MaxInts) : N * d = delta}
  IN /\ setter.pc = "done"
          => /\ \E d \in Quotients :
                  \A i \in DOMAIN integers : integers[i] = setter.before[i] + d
             /\ SumSeq(integers) = setter.value
     /\ setter.pc = "raised" => Quotients = {} /\ integers = setter.before

\* an assignment that lowers the value of a MultiInt over several counters
\* has returned
C8_Witness ==
  /\ setter.pc = "done"
  /\ Len(integers) >= 2
  /\ setter.value < SumSeq(setter.before)

\* C9: a locked_ro caller holds write locks only from `with self.write_lock`
\* to the end of that block, in which it increments the reader count; it
\* holds none while its body runs or while it leaves.
C9_ReaderFreesWriteLock ==
  \A p \in Procs :
    call[p].kind = "ro"
      => /\ pc[p] \in {"ro_body", "ro_fin_cl", "ro_dec", "ro_notify", "ro_fin_rel", "stream"}
              => \A k \in Keys : write_lock[k] # p
         /\ (\E k \in Keys : write_lock[k] = p)
              => pc[p] \in {"ro_wl", "ro_cl", "ro_inc", "ro_cl_rel", "ro_wl_rel"}

\* two readers of the same key are in their bodies at the same time
C9_Witness ==
  \E p, q \in Procs :
    /\ p # q /\ Overlap(p, q)
    /\ call[p].kind = "ro" /\ pc[p] = "ro_body"
    /\ call[q].kind = "ro" /\ pc[q] = "ro_body"

\* p is a writer that holds the write lock of all its keys and has not yet
\* started its body
WriterHoldsLock(p) ==
  /\ call[p].kind = "rw"
  /\ pc[p] \notin {"rw_wl", "rw_body", "rw_wl_rel"}

\* the reader count the accessor of p sees
ReaderCount(p) == MultiIntValue(CounterValues(read_counter, call[p].keys))

\* C10: a writer does not run its body while the reader count of its accessor
\* is above 0, and a writer that holds the write lock runs its body eventually
\* once the count is 0, for single-key and for composite accessors.
C10_WriterWaitsThenRuns ==
  \A p \in Procs :
    /\ [](InWriteBody(p) => ReaderCount(p) = 0)
    /\ (WriterHoldsLock(p) /\ ReaderCount(p) = 0) ~> InWriteBody(p)

\* a writer sleeps on the condition, holding the write lock, while a reader
\* is inside
C10_Witness ==
  \E p, q \in Procs :
    /\ call[p].kind = "rw" /\ pc[p] \in {"rw_sleep", "mw_sleep"} /\ ReaderCount(p) > 0
    /\ InReadSection(q) /\ Overlap(p, q)

(***************************************************************************)
(* Part II: Session, Query, Database scope and query cache                 *)
(***************************************************************************)

(* --------------------------- the wire, in bytes ------------------------ *)

\* Bytes on the wire: 0 is the string terminator and the status "ok", 1 is
\* the status "error" and stands for ':' inside a string, 2 stands for any
\* other octet (a digit inside a string, a type id, an unknown status)
Zero == 0
Colon == 1
Digit == 2

\* Buffer.__contains__(terminator)
HasTerminator(buf) == \E i \in DOMAIN buf : buf[i] = Zero

\* Buffer.index(terminator), 1-based
TerminatorAt(buf) ==
  CHOOSE i \in DOMAIN buf : buf[i] = Zero /\ \A j \in 1..(i - 1) : buf[j] # Zero

\* Session.recv_str: the bytes before the first terminator
StrOf(buf) == SubSeq(buf, 1, TerminatorAt(buf) - 1)

\* Session.recv_str: what is left in the buffer after the string and its terminator
AfterStr(buf) == SubSeq(buf, TerminatorAt(buf) + 1, Len(buf))

\* SocketWrapper.are_buffers_empty
AreBuffersEmpty(inb, outb) == Len(inb) = 0 /\ outb = 0

\* int(s) of a received string succeeds iff s is a non-empty string of digits
IsInt(str) == str # <<>> /\ \A i \in DOMAIN str : str[i] = Digit

\* `realm, nonce = s.split(':')` succeeds iff s holds exactly one ':'
SplitsInTwo(str) == Cardinality({i \in DOMAIN str : str[i] = Colon}) = 1

(* ------------------------- the Session operations ---------------------- *)

CommandOps == {"COMMAND", "CREATE", "ADD", "PUT", "PUTBINARY"}
QueryOps == {"QUERY", "CLOSE", "BIND", "CONTEXT", "RESULTS", "EXECUTE", "INFO",
             "OPTIONS", "UPDATING", "FULL"}
StreamOps == {"RESULTS", "FULL"}
Ops == {"login"} \cup CommandOps \cup QueryOps

\* inspect.isgeneratorfunction(old_method) in `locked`: _RESULTS and _FULL
\* contain yield, so they get the `with self.lock: yield from ...` wrapper
IsGeneratorFunction(op) == op \in StreamOps

\* the methods that fail on a missing attribute before they flush:
\* _CONTEXT calls self.send_bytes and _PUTBINARY calls self.send, and
\* Session has neither
RaisesAttributeError(op) == op \in {"CONTEXT", "PUTBINARY"}

\* bytes the operation has put into the output buffer when it flushes, or
\* when it fails: _PUTBINARY has buffered 0x9 and the path with its
\* terminator, _CONTEXT nothing; only the count matters to the buffer
RequestLength(op) ==
  CASE op = "CONTEXT" -> 0
    [] op = "PUTBINARY" -> 2
    [] op = "login" -> 2
    [] op = "COMMAND" -> 1
    [] op \in {"BIND"} -> 5
    [] op \in {"ADD"} -> 4
    [] op \in {"CREATE", "PUT"} -> 3
    [] OTHER -> 2

\* strings an operation reads before the status byte
StringsBeforeStatus(op) ==
  CASE op = "COMMAND" -> 2
    [] op = "login" -> 0
    [] op = "BIND" -> 0
    [] OTHER -> 1

\* operations that test are_buffers_empty before they look at the status
ChecksBeforeStatus(op) ==
  op \in {"login", "COMMAND", "QUERY", "CREATE", "ADD", "PUT", "CLOSE"}

\* operations that read an info string after status 1
ReadsInfoAfterError(op) ==
  op \in {"BIND", "RESULTS", "EXECUTE", "INFO", "OPTIONS", "UPDATING", "FULL"}

\* operations that test are_buffers_empty after that info string
ChecksAfterInfo(op) == op \in {"RESULTS", "EXECUTE", "INFO", "OPTIONS", "UPDATING", "FULL"}

\* the exception an operation raises on status 1
ErrorOf(op) ==
  CASE op = "login" -> "AuthError"
    [] op \in {"COMMAND", "CREATE", "ADD", "PUT", "CLOSE"} -> "CommandError"
    [] OTHER -> "QueryError"

(* ---------------------- reading a response --------------------------- *)

\* recv blocks: the bytes the operation needs have not arrived
Blocked(buf) == [blocked |-> TRUE, res |-> "none", status |-> -1, val |-> <<>>, buf |-> buf]

\* the operation has read what it reads: its outcome, the status byte it
\* read (-1: none), the string it returns and what is left in the buffer
Done(res, status, val, buf) ==
  [blocked |-> FALSE, res |-> res, status |-> status, val |-> val, buf |-> buf]

\* status == 0x1 in the operations that read the info string afterwards
ErrorOnStatusOne(op, status, val, rest, outb) ==
  IF ~HasTerminator(rest) THEN Blocked(rest)
  ELSE IF ChecksAfterInfo(op) /\ ~AreBuffersEmpty(AfterStr(rest), outb)
       THEN Done("ProtocolError", status, val, AfterStr(rest))
       ELSE Done(ErrorOf(op), status, val, AfterStr(rest))

\* from `status = self.recv_byte()` to the return or raise
AfterStatus(op, status, val, rest, outb) ==
  IF ChecksBeforeStatus(op)
  THEN IF ~AreBuffersEmpty(rest, outb) THEN Done("ProtocolError", status, val, rest)
       ELSE IF status = 0 THEN Done("return", status, val, rest)
       ELSE IF status = 1 THEN Done(ErrorOf(op), status, val, rest)
       ELSE Done("ProtocolError", status, val, rest)
  ELSE IF status = 0
       THEN IF ~AreBuffersEmpty(rest, outb) THEN Done("ProtocolError", status, val, rest)
            ELSE Done("return", status, val, rest)
       ELSE IF status = 1 THEN ErrorOnStatusOne(op, status, val, rest, outb)
       ELSE Done("ProtocolError", status, val, rest)

\* status = self.recv_byte()
ReadStatus(op, val, buf, outb) ==
  IF Len(buf) = 0 THEN Blocked(buf)
  ELSE AfterStatus(op, Head(buf), val, Tail(buf), outb)

\* the recv_str calls before the status byte; the first string is the one
\* the operation returns (result, id_)
ReadStrings(op, n, buf, outb) ==
  IF n = 0 THEN ReadStatus(op, <<>>, buf, outb)
  ELSE IF ~HasTerminator(buf) THEN Blocked(buf)
  ELSE IF n = 1 THEN ReadStatus(op, StrOf(buf), AfterStr(buf), outb)
  ELSE IF ~HasTerminator(AfterStr(buf)) THEN Blocked(buf)
  ELSE ReadStatus(op, StrOf(buf), AfterStr(AfterStr(buf)), outb)

\* the response of a plain operation; _BIND first reads a byte that must be 0
ParseResponse(op, buf, outb) ==
  IF op = "BIND"
  THEN IF Len(buf) = 0 THEN Blocked(buf)
       ELSE IF Head(buf) # Zero THEN Done("ProtocolError", -1, <<>>, Tail(buf))
       ELSE ReadStatus(op, <<>>, Tail(buf), outb)
  ELSE ReadStrings(op, StringsBeforeStatus(op), buf, outb)

\* _RESULTS / _FULL from one `typeid = self.recv_byte()` to the next yield,
\* or to the end of the generator
StreamStep(op, buf, outb) ==
  IF Len(buf) = 0 THEN Blocked(buf)
  ELSE IF Head(buf) # Zero
       THEN IF ~HasTerminator(Tail(buf)) THEN Blocked(buf)
            ELSE Done("yield", -1, StrOf(Tail(buf)), AfterStr(Tail(buf)))
       ELSE ReadStatus(op, <<>>, Tail(buf), outb)

(* ----------------------------- the server ------------------------------ *)

\* status bytes the server may answer with
Statuses == {0, 1, Digit}

\* bytes the server may send after a complete response
Garbage == {<<>>, <<Zero>>}

RECURSIVE Items(_)
\* n streamed items: a type id and an empty string each
Items(n) == IF n = 0 THEN <<>> ELSE <<Digit, Zero>> \o Items(n - 1)

\* what the server sends before the status byte
ReplyHead(op) ==
  CASE op = "login" -> {<<>>}
    [] op = "COMMAND" -> {<<Zero, Zero>>}
    [] op = "QUERY" -> {<<Digit, Zero>>}
    [] op = "BIND" -> {<<Zero>>}
    [] op \in StreamOps -> {Items(n) \o <<Zero>> : n \in 0..MaxItems}
    [] OTHER -> {<<Zero>>}

\* the responses of the server to a request: the fields of the protocol, a
\* status, the info string where the client reads one, then perhaps garbage
ServerReplies(op) ==
  {[status |-> st,
    bytes |-> hd \o <<st>> \o (IF st = 1 /\ ReadsInfoAfterError(op) THEN <<Zero>> ELSE <<>>) \o g] :
     hd \in ReplyHead(op), st \in Statuses, g \in Garbage}

\* the greeting "realm:nonce" the server sends when the connection opens
Greeting == <<Colon, Zero>>

(* ---------------------- one @locked operation -------------------------- *)

\* the locks, the setter and the constructor of Part I and the Tables are
\* not involved
PartOneIdle ==
  UNCHANGED <<write_lock, read_condition, read_counter, pc, call, idx, locked_up_to,
              phase, acc, item, result, now, timer, integers, setter, ctor,
              tables, bvars, last, written,
              global_dict, results, swrapper, shared_query, over>>

\* the frame of thread t changes in the given fields
Frame(t, f) == [thread EXCEPT ![t] = f]

\* the frame of a thread whose @locked method has returned or raised: the
\* caller gets the outcome and the value; a direct caller of the session
\* (ctx "api") goes on with nothing
Returned(op, ctx, h, res, val) ==
  IF ctx = "api" THEN NoFrame
  ELSE [pc |-> "s_done", op |-> op, ctx |-> ctx, res |-> res, status |-> -1,
        val |-> val, h |-> h]

\* a thread calls a @locked method: `with self.lock` raises AttributeError
\* when the session has no lock (before open, after close)
StartOp(t, op, ctx, h) ==
  IF sock = "open"
  THEN [pc |-> "s_lock", op |-> op, ctx |-> ctx, res |-> "none", status |-> -1,
        val |-> <<>>, h |-> h]
  ELSE Returned(op, ctx, h, "AttributeError", <<>>)

\* a mutant of LockAvailable: the lock does not exclude
LockAvailableAlways(t) == TRUE

\* Lock.acquire(): the lock is free
LockAvailable(t) == session_lock = 0

\* `with self.lock:` entry of new_method
AcquireSessionLock(t) ==
  /\ thread[t].pc = "s_lock"
  /\ LockAvailable(t)
  /\ session_lock' = t
  /\ thread' = Frame(t, [thread[t] EXCEPT !.pc = "s_send"])
  /\ PartOneIdle
  /\ UNCHANGED <<sock, in_buffer, out_buffer, authenticated, handle, queries, scope, exit_log>>

\* what Database.__exit__ notes of a request it sends
ExitLogged(f) ==
  CASE f.ctx = "exit_query" -> <<"close_query">>
    [] f.ctx = "exit_close" -> <<"CLOSE">>
    [] f.ctx = "exit_logout" -> <<"EXIT">>
    [] OTHER -> <<>>

\* login reads the greeting before it sends anything
GreetingMissing(t) == thread[t].op = "login" /\ ~HasTerminator(in_buffer)

\* `realm, nonce = self.recv_str().split(':')` raises ValueError
GreetingMalformed(t) ==
  thread[t].op = "login" /\ HasTerminator(in_buffer) /\ ~SplitsInTwo(StrOf(in_buffer))

\* the body up to self.flush(): the request is buffered and sent in one
\* sendall, and the server's response arrives; _CONTEXT and _PUTBINARY raise
\* AttributeError before the flush and leave what they have buffered
SendRequest(t) ==
  LET f == thread[t]
      inb == IF f.op = "login" THEN AfterStr(in_buffer) ELSE in_buffer
  IN /\ f.pc = "s_send"
     /\ ~GreetingMissing(t)
     /\ IF GreetingMalformed(t)
        THEN /\ in_buffer' = inb
             /\ thread' = Frame(t, [f EXCEPT !.pc = "s_unlock", !.res = "ValueError"])
             /\ UNCHANGED <<out_buffer, exit_log>>
        ELSE IF RaisesAttributeError(f.op)
        THEN /\ out_buffer + RequestLength(f.op) <= MaxOut
             /\ out_buffer' = out_buffer + RequestLength(f.op)
             /\ thread' = Frame(t, [f EXCEPT !.pc = "s_unlock", !.res = "AttributeError"])
             /\ UNCHANGED <<in_buffer, exit_log>>
        ELSE /\ out_buffer' = 0
             /\ \E r \in ServerReplies(f.op) :
                  /\ Len(inb \o r.bytes) <= MaxBuf
                  /\ in_buffer' = inb \o r.bytes
             /\ thread' = Frame(t, [f EXCEPT !.pc = "s_recv"])
             /\ exit_log' = exit_log \o ExitLogged(f)
     /\ PartOneIdle
     /\ UNCHANGED <<sock, session_lock, authenticated, handle, queries, scope>>

\* the body after self.flush(): the recv calls and the decision on the
\* status; for _RESULTS / _FULL one round of the loop per item requested.
\* The session is authenticated once login has returned.
Receive(t) ==
  LET f == thread[t]
      o == IF IsGeneratorFunction(f.op) THEN StreamStep(f.op, in_buffer, out_buffer)
           ELSE ParseResponse(f.op, in_buffer, out_buffer)
  IN /\ f.pc \in {"s_recv", "s_item"}
     /\ ~o.blocked
     /\ in_buffer' = o.buf
     /\ thread' = Frame(t, [f EXCEPT !.pc = IF o.res = "yield" THEN "s_item" ELSE "s_unlock",
                                     !.res = o.res, !.status = o.status, !.val = o.val])
     /\ authenticated' = (authenticated \/ (f.op = "login" /\ o.res = "return"))
     /\ PartOneIdle
     /\ UNCHANGED <<sock, session_lock, out_buffer, handle, queries, scope, exit_log>>

\* `with self.lock:` exit of new_method, on return and on raise
ReleaseSessionLock(t) ==
  /\ thread[t].pc = "s_unlock"
  /\ session_lock' = 0
  /\ thread' = Frame(t, Returned(thread[t].op, thread[t].ctx, thread[t].h, thread[t].res,
                                 thread[t].val))
  /\ PartOneIdle
  /\ UNCHANGED <<sock, in_buffer, out_buffer, authenticated, handle, queries, scope, exit_log>>

\* no other thread is inside a call on the session
OthersIdle(t) == \A u \in Threads \ {t} : thread[u].pc = "idle"

(* --------------------------- Session, Query ---------------------------- *)

\* Session.open: a new socket wrapper with empty buffers and a new lock;
\* the server greets the connection
SocketOpen ==
  /\ sock' = "open"
  /\ session_lock' = 0
  /\ in_buffer' = Greeting
  /\ out_buffer' = 0
  /\ authenticated' = FALSE

\* Session.close: the socket is closed, the wrapper and the lock are deleted
SocketClose ==
  /\ sock' = "closed"
  /\ session_lock' = 0
  /\ in_buffer' = <<>>
  /\ out_buffer' = 0
  /\ authenticated' = FALSE

\* a thread calls session.open()
SessionOpen(t) ==
  /\ thread[t].pc = "idle"
  /\ OthersIdle(t)
  /\ sock # "open"
  /\ SocketOpen
  /\ thread' = Frame(t, NoFrame)
  /\ PartOneIdle
  /\ UNCHANGED <<handle, queries, scope, exit_log>>

\* a thread calls session.close()
SessionClose(t) ==
  /\ thread[t].pc = "idle"
  /\ OthersIdle(t)
  /\ sock = "open"
  /\ SocketClose
  /\ thread' = Frame(t, NoFrame)
  /\ PartOneIdle
  /\ UNCHANGED <<handle, queries, scope, exit_log>>

\* a thread calls session.login() or one of the protocol methods
CallApi(t) ==
  /\ thread[t].pc = "idle"
  /\ \E op \in Ops : thread' = Frame(t, StartOp(t, op, "api", 0))
  /\ PartOneIdle
  /\ UNCHANGED <<sock, session_lock, in_buffer, out_buffer, authenticated, handle, queries,
                 scope, exit_log>>

\* the Query objects that exist
Live == {h \in Handles : handle[h].query # "none"}

\* Query.is_open
IsOpen(h) == handle[h].id_ # <<>>

\* the frame of a thread back from a Query method: what the method did
Back(f, res) == [NoFrame EXCEPT !.op = f.op, !.ctx = f.ctx, !.res = res, !.h = f.h]

\* Query.open: ValueError on a handle that has an id, else _QUERY is called
HandleOpen(t) ==
  /\ thread[t].pc = "idle"
  /\ \E h \in Live :
       thread' = Frame(t, IF IsOpen(h) THEN Back([op |-> "QUERY", ctx |-> "hopen", h |-> h],
                                                 "ValueError")
                          ELSE StartOp(t, "QUERY", "hopen", h))
  /\ PartOneIdle
  /\ UNCHANGED <<sock, session_lock, in_buffer, out_buffer, authenticated, handle, queries,
                 scope, exit_log>>

\* Query.open after _QUERY: self.id_ = int(...) where it returned
HandleOpenReturn(t) ==
  LET f == thread[t]
  IN /\ f.pc = "s_done"
     /\ f.ctx = "hopen"
     /\ IF f.res = "return" /\ IsInt(f.val)
        THEN /\ handle' = [handle EXCEPT ![f.h].id_ = f.val]
             /\ thread' = Frame(t, Back(f, "return"))
        ELSE /\ handle' = handle
             /\ thread' = Frame(t, Back(f, IF f.res = "return" THEN "ValueError" ELSE f.res))
     /\ PartOneIdle
     /\ UNCHANGED <<sock, session_lock, in_buffer, out_buffer, authenticated, queries, scope,
                    exit_log>>

\* Query.close: ValueError on a handle without an id, else _CLOSE is called
HandleClose(t) ==
  /\ thread[t].pc = "idle"
  /\ \E h \in Live :
       thread' = Frame(t, IF ~IsOpen(h) THEN Back([op |-> "CLOSE", ctx |-> "hclose", h |-> h],
                                                  "ValueError")
                          ELSE StartOp(t, "CLOSE", "hclose", h))
  /\ PartOneIdle
  /\ UNCHANGED <<sock, session_lock, in_buffer, out_buffer, authenticated, handle, queries,
                 scope, exit_log>>

\* a mutant of DelId: the id is deleted whatever _CLOSE did
DelIdAlways(f) == [res |-> f.res, handle |-> [handle EXCEPT ![f.h].id_ = <<>>]]

\* `del self.id_` after _CLOSE: skipped where _CLOSE raised; AttributeError
\* where another thread has deleted the id meanwhile
DelId(f) ==
  IF f.res # "return" THEN [res |-> f.res, handle |-> handle]
  ELSE IF ~IsOpen(f.h) THEN [res |-> "AttributeError", handle |-> handle]
  ELSE [res |-> "return", handle |-> [handle EXCEPT ![f.h].id_ = <<>>]]

\* Query.close after _CLOSE
HandleCloseReturn(t) ==
  LET f == thread[t]
  IN /\ f.pc = "s_done"
     /\ f.ctx = "hclose"
     /\ handle' = DelId(f).handle
     /\ thread' = Frame(t, Back(f, DelId(f).res))
     /\ PartOneIdle
     /\ UNCHANGED <<sock, session_lock, in_buffer, out_buffer, authenticated, queries, scope,
                    exit_log>>

\* a session and the Query objects made from it, idle
NextSession ==
  \E t \in Threads :
       \/ SessionOpen(t)
       \/ SessionClose(t)
       \/ CallApi(t)
       \/ AcquireSessionLock(t)
       \/ SendRequest(t)
       \/ Receive(t)
       \/ ReleaseSessionLock(t)
       \/ HandleOpen(t)
       \/ HandleOpenReturn(t)
       \/ HandleClose(t)
       \/ HandleCloseReturn(t)

\* a session with one Query object made from it, not yet opened
InitSession ==
  /\ LockInit /\ SetterIdle /\ CtorIdle
  /\ TablesOff
  /\ sock = "none"
  /\ session_lock = 0
  /\ in_buffer = <<>>
  /\ out_buffer = 0
  /\ authenticated = FALSE
  /\ thread = [t \in Threads |-> NoFrame]
  /\ handle = [h \in Handles |-> IF h = 1 THEN [query |-> "q1", id_ |-> <<>>] ELSE NoHandle]
  /\ queries = [q \in QueryStrings |-> 0]
  /\ scope = "out"
  /\ exit_log = <<>>

SpecSession == InitSession /\ [][NextSession]_vars

(* ------------------------ Database, Queries ---------------------------- *)

\* a mutant of ExitArgsNone: an exit with an exception is taken for a clean one
ExitArgsNoneAlways(clean) == TRUE

\* all(_arg == None for _arg in args) in Database.__exit__, and the same
\* test of e_type, e_val, e_stack in Session.__exit__
ExitArgsNone(clean) == clean

\* a mutant of Created: the Query is cached whatever open() did
CreatedAlways(f) == TRUE

\* query.open() in __missing__ returned: _QUERY returned and int() accepted the id
Created(f) == f.res = "return" /\ IsInt(f.val)

\* the Query objects of a query string that are open
OpenHandles(q) == {h \in Handles : handle[h].query = q /\ IsOpen(h)}

\* the keys of Database.queries
Cached == {q \in QueryStrings : queries[q] # 0}

\* a Query object nothing refers to any more is collected
Collect(hs, qs, frames) ==
  [h \in Handles |->
     IF /\ hs[h].id_ = <<>>
        /\ \A q \in QueryStrings : qs[q] # h
        /\ \A t \in Threads : frames[t].h # h
     THEN NoHandle ELSE hs[h]]

\* Database.__enter__ up to the call of login in Session.__enter__
DbEnter(t) ==
  /\ scope = "out"
  /\ thread[t].pc = "idle"
  /\ OthersIdle(t)
  /\ SocketOpen
  /\ scope' = "entering"
  /\ thread' = Frame(t, [NoFrame EXCEPT !.pc = "s_lock", !.op = "login", !.ctx = "enter_login"])
  /\ PartOneIdle
  /\ UNCHANGED <<handle, queries, exit_log>>

\* Session.__enter__ after login: close and re-raise where login raised;
\* else Database.__enter__ goes on with execute.check(database_name)
EnterLoginReturn(t) ==
  LET f == thread[t]
  IN /\ f.pc = "s_done"
     /\ f.ctx = "enter_login"
     /\ IF f.res = "return"
        THEN /\ thread' = Frame(t, StartOp(t, "COMMAND", "enter_check", 0))
             /\ UNCHANGED <<sock, session_lock, in_buffer, out_buffer, authenticated, scope>>
        ELSE /\ SocketClose
             /\ scope' = "enter_failed"
             /\ thread' = Frame(t, NoFrame)
     /\ PartOneIdle
     /\ UNCHANGED <<handle, queries, exit_log>>

\* Database.__enter__ after CHECK: self.queries = Queries(self) where it
\* returned; where it raised the exception leaves __enter__ as it is
EnterCheckReturn(t) ==
  LET f == thread[t]
  IN /\ f.pc = "s_done"
     /\ f.ctx = "enter_check"
     /\ scope' = IF f.res = "return" THEN "active" ELSE "enter_failed"
     /\ queries' = [q \in QueryStrings |-> 0]
     /\ thread' = Frame(t, NoFrame)
     /\ PartOneIdle
     /\ UNCHANGED <<sock, session_lock, in_buffer, out_buffer, authenticated, handle, exit_log>>

\* database.queries[q] on a key that is absent: __missing__ makes a Query
\* and calls its open()
Lookup(t) ==
  /\ scope = "active"
  /\ thread[t].pc = "idle"
  /\ \E q \in QueryStrings \ Cached, h \in Handles :
       /\ handle[h] = NoHandle
       /\ \A g \in Handles : handle[g] = NoHandle => h <= g
       /\ handle' = [handle EXCEPT ![h] = [query |-> q, id_ |-> <<>>]]
       /\ thread' = Frame(t, StartOp(t, "QUERY", "missing", h))
  /\ PartOneIdle
  /\ UNCHANGED <<sock, session_lock, in_buffer, out_buffer, authenticated, queries, scope,
                 exit_log>>

\* __missing__ after query.open(): the Query gets its id and is stored
\* under its string; where open() raised nothing is stored
MissingReturn(t) ==
  LET f == thread[t]
      q == handle[f.h].query
      frames == Frame(t, NoFrame)
  IN /\ f.pc = "s_done"
     /\ f.ctx = "missing"
     /\ IF Created(f)
        THEN /\ queries' = [queries EXCEPT ![q] = f.h]
             /\ handle' = [handle EXCEPT ![f.h].id_ = IF IsInt(f.val) THEN f.val ELSE <<>>]
        ELSE /\ queries' = queries
             /\ handle' = Collect(handle, queries, frames)
     /\ thread' = frames
     /\ PartOneIdle
     /\ UNCHANGED <<sock, session_lock, in_buffer, out_buffer, authenticated, scope, exit_log>>

\* del database.queries[q] on a key that is present (ctx "delitem"), and
\* del database.queries[...] (ctx "delall"), which starts with the first key:
\* the Query is closed if it is open
Remove(t) ==
  /\ scope = "active"
  /\ thread[t].pc = "idle"
  /\ \E q \in Cached, ctx \in {"delitem", "delall"} :
       thread' = Frame(t, IF IsOpen(queries[q]) THEN StartOp(t, "CLOSE", ctx, queries[q])
                          ELSE [NoFrame EXCEPT !.pc = "d_drop", !.ctx = ctx, !.h = queries[q]])
  /\ PartOneIdle
  /\ UNCHANGED <<sock, session_lock, in_buffer, out_buffer, authenticated, handle, queries,
                 scope, exit_log>>

\* __delitem__ after query.close(): the id is deleted where _CLOSE returned
RemoveClosed(t) ==
  LET f == thread[t]
  IN /\ f.pc = "s_done"
     /\ f.ctx \in {"delitem", "delall"}
     /\ handle' = DelId(f).handle
     /\ thread' = Frame(t, IF DelId(f).res = "return"
                           THEN [NoFrame EXCEPT !.pc = "d_drop", !.ctx = f.ctx, !.h = f.h]
                           ELSE NoFrame)
     /\ PartOneIdle
     /\ UNCHANGED <<sock, session_lock, in_buffer, out_buffer, authenticated, queries, scope,
                    exit_log>>

\* super().__delitem__(query_str): the key is dropped (KeyError where
\* another thread has dropped it); in the loop over self.keys() the next
\* step of the iteration then raises RuntimeError
RemoveDrop(t) ==
  LET f == thread[t]
      q == handle[f.h].query
      frames == Frame(t, NoFrame)
      dropped == [queries EXCEPT ![q] = 0]
  IN /\ f.pc = "d_drop"
     /\ queries' = dropped
     /\ handle' = Collect(handle, dropped, frames)
     /\ thread' = frames
     /\ PartOneIdle
     /\ UNCHANGED <<sock, session_lock, in_buffer, out_buffer, authenticated, scope, exit_log>>

\* the with block of the Database ends, cleanly or with an exception; with
\* an exception Database.__exit__ and Session.__exit__ only close the socket
DbExit(t) ==
  /\ scope = "active"
  /\ thread[t].pc = "idle"
  /\ OthersIdle(t)
  /\ \E clean \in BOOLEAN :
       IF ExitArgsNone(clean)
       THEN /\ scope' = IF clean THEN "exiting_clean" ELSE "exiting_exc"
            /\ thread' = Frame(t, [NoFrame EXCEPT !.pc = "x_queries", !.ctx = "exit"])
            /\ UNCHANGED <<sock, session_lock, in_buffer, out_buffer, authenticated, exit_log>>
       ELSE /\ SocketClose
            /\ scope' = "exited_exc"
            /\ exit_log' = <<"socket_close">>
            /\ thread' = Frame(t, NoFrame)
  /\ PartOneIdle
  /\ UNCHANGED <<handle, queries>>

\* the loop over self.queries.values(): the next open Query is closed;
\* after the last one self.execute.close() is called
ExitNextQuery(t) ==
  /\ thread[t].pc = "x_queries"
  /\ IF \E q \in Cached : IsOpen(queries[q])
     THEN \E q \in Cached :
            /\ IsOpen(queries[q])
            /\ thread' = Frame(t, StartOp(t, "CLOSE", "exit_query", queries[q]))
     ELSE thread' = Frame(t, StartOp(t, "COMMAND", "exit_close", 0))
  /\ PartOneIdle
  /\ UNCHANGED <<sock, session_lock, in_buffer, out_buffer, authenticated, handle, queries,
                 scope, exit_log>>

\* the exception of a step of __exit__ leaves __exit__
ExitFailed(t) ==
  /\ scope' = "exit_failed"
  /\ thread' = Frame(t, NoFrame)

\* query.close() in the loop of Database.__exit__ is back
ExitQueryReturn(t) ==
  LET f == thread[t]
  IN /\ f.pc = "s_done"
     /\ f.ctx = "exit_query"
     /\ handle' = DelId(f).handle
     /\ IF DelId(f).res = "return"
        THEN /\ thread' = Frame(t, [NoFrame EXCEPT !.pc = "x_queries", !.ctx = "exit"])
             /\ scope' = scope
        ELSE ExitFailed(t)
     /\ PartOneIdle
     /\ UNCHANGED <<sock, session_lock, in_buffer, out_buffer, authenticated, queries, exit_log>>

\* self.execute.close() is back: Session.__exit__ calls logout
ExitCloseReturn(t) ==
  LET f == thread[t]
  IN /\ f.pc = "s_done"
     /\ f.ctx = "exit_close"
     /\ IF f.res = "return"
        THEN /\ thread' = Frame(t, StartOp(t, "COMMAND", "exit_logout", 0))
             /\ scope' = scope
        ELSE ExitFailed(t)
     /\ PartOneIdle
     /\ UNCHANGED <<sock, session_lock, in_buffer, out_buffer, authenticated, handle, queries,
                    exit_log>>

\* logout is back: Session.__exit__ closes the socket
ExitLogoutReturn(t) ==
  LET f == thread[t]
  IN /\ f.pc = "s_done"
     /\ f.ctx = "exit_logout"
     /\ IF f.res = "return"
        THEN /\ SocketClose
             /\ exit_log' = Append(exit_log, "socket_close")
             /\ scope' = IF scope = "exiting_clean" THEN "exited_clean" ELSE "exited_exc"
             /\ thread' = Frame(t, NoFrame)
        ELSE /\ ExitFailed(t)
             /\ UNCHANGED <<sock, session_lock, in_buffer, out_buffer, authenticated, exit_log>>
     /\ PartOneIdle
     /\ UNCHANGED <<handle, queries>>

\* the steps of the threads ts that use one Database
DatabaseStep(ts) ==
  \E t \in ts :
    \/ DbEnter(t)
    \/ AcquireSessionLock(t)
    \/ SendRequest(t)
    \/ Receive(t)
    \/ ReleaseSessionLock(t)
    \/ EnterLoginReturn(t)
    \/ EnterCheckReturn(t)
    \/ Lookup(t)
    \/ MissingReturn(t)
    \/ Remove(t)
    \/ RemoveClosed(t)
    \/ RemoveDrop(t)
    \/ DbExit(t)
    \/ ExitNextQuery(t)
    \/ ExitQueryReturn(t)
    \/ ExitCloseReturn(t)
    \/ ExitLogoutReturn(t)

\* a Database after __init__
InitDatabase == LockInit /\ SetterIdle /\ CtorIdle /\ SessionOff

\* the threads of a program share the Database
NextDatabase == DatabaseStep(Threads)

SpecDatabase == InitDatabase /\ [][NextDatabase]_vars

\* one thread uses the Database
NextCache == DatabaseStep({1})

SpecCache == InitDatabase /\ [][NextCache]_vars

(* ===================================================================== *)
(* Claims on the session and the query handle                             *)
(* ===================================================================== *)

\* the thread is inside the body of a @locked method: it has entered
\* `with self.lock` and not left it (for _RESULTS / _FULL: an item has been
\* requested and the generator is not exhausted)
InOperation(t) == thread[t].pc \in {"s_send", "s_recv", "s_item", "s_unlock"}

\* C11: between the first byte an operation sends and the last byte it
\* reads no other operation of the same session sends or receives: at most
\* one thread is inside a locked body, and it holds the session lock; a
\* streamed Results / Full stays inside from the first item requested until
\* the stream is consumed
C11_OperationsExclusive ==
  \A t \in Threads :
    InOperation(t) => /\ session_lock = t
                      /\ \A u \in Threads \ {t} : ~InOperation(u)

\* a stream has yielded an item and is not exhausted while another thread
\* waits to start its operation
C11_Witness ==
  \E t \in Threads, u \in Threads :
    /\ thread[t].pc = "s_item"
    /\ thread[t].op \in StreamOps
    /\ thread[u].pc = "s_lock"

\* C12: an operation that completes (returns, or raises AuthError,
\* CommandError or QueryError) has seen both buffers empty; leftover bytes
\* raise ProtocolError instead
C12_CompletesOnEmptyBuffers ==
  \A t \in Threads :
    (thread[t].pc = "s_unlock"
       /\ thread[t].res \in {"return", "AuthError", "CommandError", "QueryError"})
      => AreBuffersEmpty(in_buffer, out_buffer)

\* C13: the status byte decides the outcome: 0x00 returns; 0x01 raises
\* AuthError for login, CommandError for Command / Create / Add / Put and
\* QueryError for every query operation; any other value raises
\* ProtocolError (an operation that finds garbage raises ProtocolError
\* whatever the status)
C13_StatusDecides ==
  \A t \in Threads :
    (thread[t].pc = "s_unlock" /\ thread[t].status # -1 /\ thread[t].op # "PUTBINARY")
      => \/ thread[t].res = "ProtocolError"
         \/ thread[t].status = 0 /\ thread[t].res = "return"
         \/ /\ thread[t].status = 1
            /\ thread[t].res = IF thread[t].op = "login" THEN "AuthError"
                               ELSE IF thread[t].op \in {"COMMAND", "CREATE", "ADD", "PUT"}
                                    THEN "CommandError"
                                    ELSE "QueryError"

\* C14: no request of a command or query operation has been sent on a
\* session that is not authenticated
C14_AuthenticatedBeforeRequests ==
  \A t \in Threads :
    (thread[t].pc = "s_recv" /\ thread[t].op \in CommandOps \cup QueryOps)
      => authenticated

\* thread t calls Query.open / Query.close (ctx) in this step
CallsHandle(t, ctx) ==
  thread[t].pc = "idle" /\ thread[t]' # thread[t] /\ thread[t]'.ctx = ctx

\* thread t comes back from Query.open / Query.close (ctx) in this step
LeavesHandle(t, ctx) ==
  thread[t].pc = "s_done" /\ thread[t].ctx = ctx /\ thread[t]'.pc = "idle"

\* C20: the life of a query handle: open on an open handle raises
\* (ValueError) and keeps its id; close on a handle without id raises; an
\* open whose Query create fails leaves the handle as it was, a successful
\* one leaves it open with an integer id; a close whose Close raises leaves
\* the handle open, a successful one leaves it not open (so that open can
\* succeed again)
C20_HandleLifecycle ==
  [][\A t \in Threads :
       /\ (CallsHandle(t, "hopen") /\ IsOpen(thread[t]'.h))
            => (thread[t]'.pc = "idle" /\ thread[t]'.res = "ValueError" /\ handle' = handle)
       /\ (CallsHandle(t, "hclose") /\ ~IsOpen(thread[t]'.h))
            => (thread[t]'.pc = "idle" /\ thread[t]'.res = "ValueError" /\ handle' = handle)
       /\ LeavesHandle(t, "hopen")
            => IF thread[t]'.res = "return"
               THEN thread[t].res = "return" /\ IsInt(handle'[thread[t].h].id_)
               ELSE handle' = handle
       /\ LeavesHandle(t, "hclose")
            => IF thread[t]'.res = "return"
               THEN thread[t].res = "return" /\ handle'[thread[t].h].id_ = <<>>
               ELSE handle' = handle
    ]_vars

\* a handle is open again: one thread is back from a successful close of
\* it, the other from a successful open of it
C20_Witness ==
  \E t \in Threads, u \in Threads, h \in Handles :
    /\ thread[t] = Back([op |-> "QUERY", ctx |-> "hopen", h |-> h], "return")
    /\ thread[u] = Back([op |-> "CLOSE", ctx |-> "hclose", h |-> h], "return")
    /\ IsOpen(h)

(* ===================================================================== *)
(* Claims on the Database scope and its query cache                       *)
(* ===================================================================== *)

\* the steps of a clean exit after the closes of the cached queries
ExitTail == <<"CLOSE", "EXIT", "socket_close">>

\* the log holds k closes of cached queries, then the first n steps of ExitTail
CleanExitOrder(log, k, n) ==
  /\ Len(log) = k + n
  /\ \A i \in 1..k : log[i] = "close_query"
  /\ \A i \in 1..n : log[k + i] = ExitTail[i]

C16_NoOpenHandleOnClosedSocket ==
  (sock = "closed" /\ scope \in {"exited_clean", "exited_exc"})
    => \A q \in Cached : ~IsOpen(queries[q])

\* C17: entering the Database scope returns on an authenticated session
\* whose CHECK was answered with status 0, or raises and leaves the
\* connection closed
C17_EnterAllOrNothing ==
  /\ scope = "active" => (sock = "open" /\ authenticated)
  /\ scope = "enter_failed" => sock = "closed"

\* every thread is outside the cache
Quiet == \A t \in Threads : thread[t].pc = "idle"

\* C18: after any sequence of lookups and removals every cached handle is
\* open and belongs to its key, and every query string has at most one open
\* handle, the cached one (one Query create per string looked up); a failed
\* create stores nothing; a removal closes the handle before it drops the key
C18_CacheHoldsOpenHandles ==
  [][/\ (scope = "active" /\ Quiet
          => \A q \in QueryStrings :
               /\ q \in Cached => (IsOpen(queries[q]) /\ handle[queries[q]].query = q)
               /\ OpenHandles(q) \subseteq {queries[q]})'
     /\ \A t \in Threads, q \in QueryStrings :
          /\ (thread[t].ctx = "missing" /\ thread[t].pc = "s_done" /\ ~Created(thread[t]))
               => queries' = queries
          /\ (queries[q] # 0 /\ queries'[q] = 0 /\ scope = "active")
               => ~IsOpen(queries[q])
    ]_vars

\* two query strings have been looked up and are cached, each with its handle
C18_Witness ==
  /\ scope = "active"
  /\ Quiet
  /\ Cached = QueryStrings
  /\ \A q \in QueryStrings : OpenHandles(q) = {queries[q]}

\* C19: insertions into the cache are serialised, so that two threads that
\* miss on the same query string do not both create a query and overwrite
\* one another: no query string has two open handles
C19_NoDoubleCreate ==
  \A q \in QueryStrings : Cardinality(OpenHandles(q)) <= 1

(* ===================================================================== *)
(* Part III: the Table expression algebra (src/database.py)               *)
(* ===================================================================== *)

MaxFold == 10        \* operands of a cartesian product at most

Databases == {1, 2}
Segments == {"a"}
Filters == {"f", "g"}
KeySpecs == {<<>>, <<"k">>}
Bindings == {{<<"v", 1>>}, {<<"v", 2>>}}

\* a path part: a segment string, or a sub-Table of a product
Seg(s) == [kind |-> "seg", seg |-> s]
Sub(t) == [kind |-> "table", t |-> t]

\* a step (path, keys, filter) of the expression chain; keyed / filtered
\* are false where the source has None
ChainStep(path, keyed, keys, filtered, filters) ==
  [path |-> path, keyed |-> keyed, keys |-> keys, filtered |-> filtered, filters |-> filters]

\* (path, None, None)
PlainStep(path) == ChainStep(path, FALSE, <<>>, FALSE, <<>>)

\* selectors: Ellipsis, or a tuple of values; "slice" is a slice object
Ellipsis == [ellipsis |-> TRUE, vals |-> <<>>]
Tuple(vals) == [ellipsis |-> FALSE, vals |-> vals]

\* the arguments of a subscript: Ellipsis, a scalar, a slice, a tuple
KeyValues ==
  {[kind |-> "ellipsis", vals |-> <<>>],
   [kind |-> "scalar", vals |-> <<"v">>],
   [kind |-> "scalar", vals |-> <<"slice">>],
   [kind |-> "tuple", vals |-> <<"v", "slice">>]}

\* __getitem__: Ellipsis stays, a non-tuple becomes a 1-tuple, a tuple a tuple
Selector(kv) == IF kv.kind = "ellipsis" THEN Ellipsis ELSE Tuple(kv.vals)

\* Table.__init__
NewTable(db, document, expr, sel, bv) ==
  [db |-> db, document |-> document, expr |-> expr, sel |-> sel, bv |-> bv]

\* the outcome of an operator: a new Table, or the exception raised
Made(t) == [res |-> "new", t |-> t]
Raised(e, t) == [res |-> e, t |-> t]

\* expr_chain[:-1]
Front(seq) == SubSeq(seq, 1, Len(seq) - 1)

\* expr_chain[-1]
LastStep(t) == t.expr[Len(t.expr)]

\* `not expr_chain or expr_chain[-1][1] != None`
NoOpenStep(t) == t.expr = <<>> \/ LastStep(t).keyed

\* Table.__truediv__
TrueDiv(t, seg) ==
  Made([t EXCEPT !.expr =
          IF NoOpenStep(t) THEN Append(t.expr, PlainStep(<<Seg(seg)>>))
          ELSE Append(Front(t.expr), PlainStep(Append(LastStep(t).path, Seg(seg))))])

\* a mutant of KeysOf: an empty keys specification stays empty
KeysAsGiven(spec) == spec

\* `if not keys_spec: keys_spec = [None]`, then tuple(keys_spec)
KeysOf(spec) == IF spec = <<>> THEN <<"None">> ELSE spec

\* Table.__matmul__
MatMul(t, spec) ==
  IF NoOpenStep(t) THEN Raised("ValueError", t)
  ELSE Made([t EXCEPT !.expr =
               Append(Front(t.expr), [LastStep(t) EXCEPT !.keyed = TRUE, !.keys = KeysOf(spec)])])

\* Table.__mod__
Mod(t, f) ==
  IF NoOpenStep(t) THEN Raised("ValueError", t)
  ELSE Made([t EXCEPT !.expr =
               Append(Front(t.expr),
                      [LastStep(t) EXCEPT !.filtered = TRUE,
                                          !.filters = IF LastStep(t).filtered
                                                      THEN Append(LastStep(t).filters, f)
                                                      ELSE <<f>>])])

\* Table.__getitem__
GetItem(t, kv) ==
  IF Len(t.sel) > Len(t.expr) THEN Raised("TypeError", t)
  ELSE Made([t EXCEPT !.sel = Append(t.sel, Selector(kv))])

\* dict.update
Update(d, values) == {b \in d : \A w \in values : w[1] # b[1]} \cup values

\* all(isinstance(_subpath, Table) for _subpath in path)
AllTables(path) == \A i \in DOMAIN path : path[i].kind = "table"

\* self_is_product / other_is_product in __mul__
IsProduct(t) ==
  /\ t.expr # <<>>
  /\ ~LastStep(t).keyed
  /\ ~LastStep(t).filtered
  /\ AllTables(LastStep(t).path)

\* what an operand of __mul__ contributes to the path of the product: the
\* operands of a product, else (self[...],), which may raise
Operands(t) ==
  IF IsProduct(t) THEN [res |-> "new", path |-> LastStep(t).path]
  ELSE [res |-> GetItem(t, [kind |-> "ellipsis", vals |-> <<>>]).res,
        path |-> <<Sub(GetItem(t, [kind |-> "ellipsis", vals |-> <<>>]).t)>>]

\* a mutant of TooMany: no limit on the operands
TooManyNever(n) == FALSE

\* `len(expr_chain[0][0]) > 10`
TooMany(n) == n > MaxFold

\* the documents of the product: a frozenset in every case
Union(a, b) == [multi |-> TRUE, names |-> a.document.names \cup b.document.names]

\* Table.__mul__; the new dict of bound variables is given the index bv
Mul(a, b, bv) ==
  IF a.db # b.db THEN Raised("ValueError", a)
  ELSE IF Operands(a).res # "new" THEN Raised(Operands(a).res, a)
  ELSE IF Operands(b).res # "new" THEN Raised(Operands(b).res, a)
  ELSE IF TooMany(Len(Operands(a).path \o Operands(b).path)) THEN Raised("ValueError", a)
  ELSE Made(NewTable(a.db, Union(a, b), <<PlainStep(Operands(a).path \o Operands(b).path)>>,
                     <<>>, bv))

\* min(len(a), len(b)): the length of zip(a, b)
Zipped(a, b) == IF Len(a) < Len(b) THEN Len(a) ELSE Len(b)

\* the loop body of __is_slice for one (step, selector) pair
PairSlice(step, vals) ==
  IF vals.ellipsis THEN "True"
  ELSE IF ~step.keyed THEN "TypeError"
  ELSE IF \E n \in 1..Zipped(step.keys, vals.vals) : vals.vals[n] = "slice" THEN "True"
  ELSE "False"

RECURSIVE IsSlice(_)
RECURSIVE OwnSlice(_, _)
RECURSIVE SubSlice(_, _)

\* the first loop of __is_slice, from pair m on
OwnSlice(t, m) ==
  IF m > Zipped(t.expr, t.sel) THEN "False"
  ELSE IF PairSlice(t.expr[m], t.sel[m]) # "False" THEN PairSlice(t.expr[m], t.sel[m])
  ELSE OwnSlice(t, m + 1)

\* the second loop of __is_slice, over the sub-Tables from k on
SubSlice(path, k) ==
  IF k > Len(path) THEN "False"
  ELSE IF IsSlice(path[k].t) # "False" THEN IsSlice(path[k].t)
  ELSE SubSlice(path, k + 1)

\* Table.__is_slice: "True", "False", or the exception it raises
IsSlice(t) ==
  IF OwnSlice(t, 1) # "False" THEN OwnSlice(t, 1)
  ELSE IF t.expr # <<>> /\ AllTables(t.expr[1].path) THEN SubSlice(t.expr[1].path, 1)
  ELSE "False"

RECURSIVE Compiles(_)

\* __query_expr and __apply_keys run through: every tuple selector meets a
\* step with keys (zip(keys, vals)), every path is all sub-Tables, which
\* compile, or all strings ('/'.join(path))
Compiles(t) ==
  \A m \in 1..Zipped(t.expr, t.sel) :
    /\ t.sel[m].ellipsis \/ t.expr[m].keyed
    /\ \/ \A i \in DOMAIN t.expr[m].path : t.expr[m].path[i].kind = "seg"
       \/ /\ AllTables(t.expr[m].path)
          /\ \A i \in DOMAIN t.expr[m].path : Compiles(t.expr[m].path[i].t)

\* what the server answers to an executed query
Answers == {"some", "empty", "error"}

\* `if not result and not <table>.__is_slice(): raise KeyError`
EmptyCheck(answer, t) ==
  IF answer # "empty" THEN "result"
  ELSE IF IsSlice(t) = "True" THEN "result"
  ELSE IF IsSlice(t) = "False" THEN "KeyError"
  ELSE IsSlice(t)

\* Table.__str__ without the lock
Str(t, answer) ==
  IF ~Compiles(t) THEN "TypeError"
  ELSE IF answer = "error" THEN "BaseXError"
  ELSE EmptyCheck(answer, t)

\* the Table whose __is_slice is tested by __delitem__: self
Checked(self, final) == self

\* Table.__delitem__ without the lock
DelItem(t, kv, answer) ==
  IF GetItem(t, kv).res # "new" THEN GetItem(t, kv).res
  ELSE IF ~Compiles(GetItem(t, kv).t) THEN "TypeError"
  ELSE IF answer = "error" THEN "BaseXError"
  ELSE EmptyCheck(answer, Checked(t, GetItem(t, kv).t))

(* ------------------------ actions: the operators ----------------------- *)

\* the locks, the session and the Database are not involved
OnlyTables ==
  UNCHANGED <<write_lock, read_condition, read_counter, pc, call, idx, locked_up_to,
              phase, acc, item, result, now, timer, integers, setter, ctor,
              sock, session_lock, in_buffer, out_buffer, authenticated, thread, handle,
              queries, scope, exit_log, written,
              global_dict, results, swrapper, shared_query, over>>

\* the record of the last operation: operator, operand indices, argument,
\* outcome and the answer of the server
Op(op, a, b, arg, res, answer) ==
  [op |-> op, a |-> a, b |-> b, arg |-> arg, res |-> res, answer |-> answer]

\* an operator returned the Table made, or raised; the dicts are as given,
\* and at most max Tables are built
Outcome(op, a, b, arg, out, dicts, max) ==
  /\ out.res = "new" => Len(tables) < max
  /\ tables' = IF out.res = "new" THEN Append(tables, out.t) ELSE tables
  /\ bvars' = IF out.res = "new" THEN dicts ELSE bvars
  /\ last' = Op(op, a, b, arg, out.res, "none")
  /\ OnlyTables

\* Database.doc(document): a Table with empty chains and a dict of its own;
\* databases and documents are interchangeable, so the first Table is of
\* database 1 and document "x"
Doc(max) ==
  /\ Len(tables) < MaxDocs
  /\ \E db \in Databases, d \in Documents :
       /\ tables = <<>> => db = 1 /\ d = "x"
       /\ Outcome("doc", 0, 0, d,
                  Made(NewTable(db, [multi |-> FALSE, names |-> {d}], <<>>, <<>>, Len(bvars) + 1)),
                  Append(bvars, {}), max)

\* table / path_element
OpTrueDiv(max) ==
  \E i \in DOMAIN tables, seg \in Segments :
    Outcome("truediv", i, 0, seg, TrueDiv(tables[i], seg), bvars, max)

\* table @ keys_spec
OpMatMul(max) ==
  \E i \in DOMAIN tables, spec \in KeySpecs :
    Outcome("matmul", i, 0, spec, MatMul(tables[i], spec), bvars, max)

\* table % filter_spec
OpMod(max) ==
  \E i \in DOMAIN tables, f \in Filters :
    Outcome("mod", i, 0, f, Mod(tables[i], f), bvars, max)

\* a mutant of Rebind: the dict of the operand is updated in place
RebindInPlace(dicts, bv, values) ==
  [dicts |-> [dicts EXCEPT ![bv] = Update(dicts[bv], values)], bv |-> bv]

\* `bound_variables = dict(self.bound_variables)`, then update(values)
Rebind(dicts, bv, values) ==
  [dicts |-> Append(dicts, Update(dicts[bv], values)), bv |-> Len(dicts) + 1]

\* table // values (Table.__floordiv__)
OpFloorDiv(max) ==
  \E i \in DOMAIN tables, values \in Bindings :
    Outcome("floordiv", i, 0, values,
            Made([tables[i] EXCEPT !.bv = Rebind(bvars, tables[i].bv, values).bv]),
            Rebind(bvars, tables[i].bv, values).dicts, max)

\* table[keys_values]
OpGetItem(max) ==
  \E i \in DOMAIN tables, kv \in KeyValues :
    Outcome("getitem", i, 0, kv, GetItem(tables[i], kv), bvars, max)

\* table * other
OpMul(max) ==
  \E i \in DOMAIN tables, j \in DOMAIN tables :
    Outcome("mul", i, j, <<>>, Mul(tables[i], tables[j], Len(bvars) + 1),
            Append(bvars, Update(bvars[tables[i].bv], bvars[tables[j].bv])), max)

\* the Table built last: every Table is the one built last in some state
Newest == Len(tables)

\* str(table), for the Table built last
OpStr ==
  /\ tables # <<>>
  /\ \E answer \in Answers :
       last' = Op("str", Newest, 0, <<>>, Str(tables[Newest], answer), answer)
  /\ UNCHANGED <<tables, bvars>>
  /\ OnlyTables

\* del table[keys_values], for the Table built last
OpDel ==
  /\ tables # <<>>
  /\ \E kv \in KeyValues, answer \in Answers :
       last' = Op("del", Newest, 0, kv, DelItem(tables[Newest], kv, answer), answer)
  /\ UNCHANGED <<tables, bvars>>
  /\ OnlyTables

\* the program builds at most max Tables with the expression operators
Build(max) ==
  \/ Doc(max)
  \/ OpTrueDiv(max)
  \/ OpMatMul(max)
  \/ OpMod(max)
  \/ OpFloorDiv(max)
  \/ OpGetItem(max)
  \/ OpMul(max)

InitTable == Init

NextTable == Build(MaxTables)

SpecTable == InitTable /\ [][NextTable]_vars

\* the program builds products of documents, with keys on some of them
NextProduct ==
  \/ Doc(MaxProducts)
  \/ OpMatMul(MaxProducts)
  \/ OpMul(MaxProducts)

SpecProduct == InitTable /\ [][NextProduct]_vars

\* the program builds Tables and executes them
NextSelect ==
  \/ Build(MaxSelect)
  \/ OpStr
  \/ OpDel

SpecSelect == InitTable /\ [][NextSelect]_vars

(* ------------------------ Table.__setitem__ ---------------------------- *)

\* Table.__setitem__ under locked_rw: final = self[keys_values] and the
\* DELETE query of final is executed
SetItemDelete(p) ==
  /\ pc[p] = "rw_body"
  /\ written[p] = 0
  /\ written' = [written EXCEPT ![p] = 1]
  /\ UNCHANGED <<write_lock, read_condition, read_counter, pc, call, idx, locked_up_to,
                 phase, acc, item, result, now, timer>>
  /\ UNCHANGED <<integers, setter, ctor, sock, session_lock, in_buffer, out_buffer,
                 authenticated, thread, handle, queries, scope, exit_log,
                 tables, bvars, last, global_dict, results, swrapper, shared_query, over>>

\* Table.__setitem__: the INSERT query is executed and the method returns
SetItemInsert(p) ==
  /\ pc[p] = "rw_body"
  /\ written[p] = 1
  /\ written' = [written EXCEPT ![p] = 0]
  /\ pc' = [pc EXCEPT ![p] = "rw_wl_rel"]
  /\ UNCHANGED <<write_lock, read_condition, read_counter, call, idx, locked_up_to,
                 phase, acc, item, result, now, timer>>
  /\ UNCHANGED <<integers, setter, ctor, sock, session_lock, in_buffer, out_buffer,
                 authenticated, thread, handle, queries, scope, exit_log,
                 tables, bvars, last, global_dict, results, swrapper, shared_query, over>>

\* processes read Tables and assign to their items: the locked_rw method
\* is __setitem__
NextSetItem ==
  \E p \in Procs :
    \/ Call(p)
    \/ LockAcquire(p)
    \/ MultiTryOk(p)
    \/ MultiTryFail(p)
    \/ MultiUndo(p)
    \/ Release(p)
    \/ ReadIncrement(p)
    \/ ReadBody(p)
    \/ ReadDecrement(p)
    \/ ReadNotify(p)
    \/ StreamItem(p)
    \/ StreamEnd(p)
    \/ WriteWaitFor(p)
    \/ WriteWake(p)
    \/ MultiWaitStart(p)
    \/ MultiWaitLock(p)
    \/ MultiWaitRead(p)
    \/ MultiWaitPredicate(p)
    \/ MultiWaitWake(p)
    \/ MultiWaitUnlock(p)
    \/ SetItemDelete(p)
    \/ SetItemInsert(p)

SpecSetItem == Init /\ [][NextSetItem]_vars

(* ===================================================================== *)
(* Claims on the Table expression algebra                                 *)
(* ===================================================================== *)

\* C21: every operator of a Table (/, @, %, *, //, subscript) leaves every
\* Table that exists, its document, its chains and the contents of its
\* bound variables, as it was, and when it succeeds its result is one new
\* Table
C21_OperatorsPure ==
  [][/\ Len(tables') >= Len(tables)
     /\ SubSeq(tables', 1, Len(tables)) = tables
     /\ SubSeq(bvars', 1, Len(bvars)) = bvars
     /\ last'.res = "new" => Len(tables') = Len(tables) + 1]_vars

\* table // values has made a Table whose bound variables differ from those
\* of its operand, which are a dict of several Tables
C21_Witness ==
  /\ last.op = "floordiv"
  /\ last.res = "new"
  /\ bvars[tables[Len(tables)].bv] # bvars[tables[last.a].bv]
  /\ \E i \in DOMAIN tables : i # last.a /\ tables[i].bv = tables[last.a].bv

\* C22: every Table has at most as many selectors as steps
C22_SelectorsWithinChain ==
  \A i \in DOMAIN tables : Len(tables[i].sel) <= Len(tables[i].expr)

\* C23: table / segment appends the segment to the path of the last step
\* when that step has neither keys nor filters and keeps the earlier steps;
\* when the last step has keys or filters, or no step exists, it opens a new
\* step after the steps of the operand, which stay as they are
C23_ExtendPath ==
  last.op = "truediv" =>
    /\ last.res = "new"
    /\ tables[Len(tables)] =
         [tables[last.a] EXCEPT !.expr =
            IF tables[last.a].expr # <<>> /\ ~LastStep(tables[last.a]).keyed
               /\ ~LastStep(tables[last.a]).filtered
            THEN Append(Front(tables[last.a].expr),
                        PlainStep(Append(LastStep(tables[last.a]).path, Seg(last.arg))))
            ELSE Append(tables[last.a].expr, PlainStep(<<Seg(last.arg)>>))]

\* C24: table @ keys raises when the Table has no step or its last step has
\* keys; else it makes a Table that differs from the operand in the keys of
\* the last step only, which are the given ones, or (None,) for an empty
\* specification
C24_AttachKeys ==
  last.op = "matmul" =>
    IF tables[last.a].expr = <<>> \/ LastStep(tables[last.a]).keyed
    THEN last.res = "ValueError"
    ELSE /\ last.res = "new"
         /\ tables[Len(tables)] =
              [tables[last.a] EXCEPT !.expr =
                 Append(Front(tables[last.a].expr),
                        ChainStep(LastStep(tables[last.a]).path, TRUE,
                                  IF last.arg = <<>> THEN <<"None">> ELSE last.arg,
                                  LastStep(tables[last.a]).filtered,
                                  LastStep(tables[last.a]).filters))]

\* table @ [] has set the keys (None,) on a last step that has a filter
C24_Witness ==
  /\ last.op = "matmul"
  /\ last.res = "new"
  /\ last.arg = <<>>
  /\ LastStep(tables[Len(tables)]).keys = <<"None">>
  /\ LastStep(tables[Len(tables)]).filters = <<"f">>

\* C25: table % predicate raises when the Table has no step; else it makes a
\* Table that differs from the operand in the filter list of the last step
\* only, which has the predicate appended
C25_AttachFilter ==
  last.op = "mod" =>
    IF tables[last.a].expr = <<>>
    THEN last.res = "ValueError"
    ELSE /\ last.res = "new"
         /\ tables[Len(tables)] =
              [tables[last.a] EXCEPT !.expr =
                 Append(Front(tables[last.a].expr),
                        ChainStep(LastStep(tables[last.a]).path,
                                  LastStep(tables[last.a]).keyed,
                                  LastStep(tables[last.a]).keys,
                                  TRUE,
                                  Append(LastStep(tables[last.a]).filters, last.arg)))]

C27_SliceShaped ==
  \A i \in DOMAIN tables :
    IsSlice(tables[i]) =
      IF \E m \in DOMAIN tables[i].sel :
           \/ tables[i].sel[m].ellipsis
           \/ \E n \in DOMAIN tables[i].sel[m].vals : tables[i].sel[m].vals[n] = "slice"
      THEN "True" ELSE "False"

\* C28: str(table) whose query ran and returned nothing raises KeyError when
\* no selector of the Table is Ellipsis or contains a range, and returns the
\* empty result when one is or does
C28_EmptySelection ==
  last.op = "str" /\ last.answer = "empty" /\ Compiles(tables[last.a]) =>
    last.res =
      IF \E m \in DOMAIN tables[last.a].sel :
           \/ tables[last.a].sel[m].ellipsis
           \/ \E n \in DOMAIN tables[last.a].sel[m].vals :
                tables[last.a].sel[m].vals[n] = "slice"
      THEN "result" ELSE "KeyError"

\* C29: del table[s] whose query ran raises KeyError exactly when it matched
\* nothing and no selector of table[s], s included, is Ellipsis or contains
\* a range
C29_DeleteNotFound ==
  last.op = "del" /\ last.res \in {"result", "KeyError"} =>
    (last.res = "KeyError" <=>
       /\ last.answer = "empty"
       /\ ~last.arg.kind = "ellipsis"
       /\ \A n \in DOMAIN last.arg.vals : last.arg.vals[n] # "slice"
       /\ \A m \in DOMAIN tables[last.a].sel :
            /\ ~tables[last.a].sel[m].ellipsis
            /\ \A n \in DOMAIN tables[last.a].sel[m].vals :
                 tables[last.a].sel[m].vals[n] # "slice")

\* C30: between the DELETE and the INSERT of table[k] = v no other process
\* whose Table shares a document with the Table runs the body of a read or
\* of a write: neither the body of a plain method, nor a part of the body of
\* a generator, nor a query of another assignment
C30_SetItemAtomic ==
  [][\A p, q \in Procs :
       p # q /\ written[p] = 1 /\ Overlap(p, q) =>
         /\ ~(pc[q] = "ro_body" /\ call[q].method = "function" /\ pc'[q] # "ro_body")
         /\ ~(pc[q] = "stream" /\ (item'[q] # item[q] \/ pc'[q] # "stream"))
         /\ ~(pc[q] = "rw_body" /\ (written'[q] # written[q] \/ pc'[q] # "rw_body"))]_vars

(* ===================================================================== *)
(* Part IV: GlobalDict, the response streams, the socket buffer, a shared *)
(* Query and Table.__call__                                               *)
(* ===================================================================== *)

\* the variables of the other parts are not involved
OthersIdle4 ==
  UNCHANGED <<write_lock, read_condition, read_counter, pc, call, idx, locked_up_to,
              phase, acc, item, result, now, timer, integers, setter, ctor,
              sock, session_lock, in_buffer, out_buffer, authenticated, thread, handle,
              queries, scope, exit_log, tables, bvars, last, written>>

(* ------------------------------ GlobalDict ----------------------------- *)

\* the GlobalDicts of a Driver, by what their constructor makes
Kinds == {"Lock", "Condition", "Value"}

\* a primitive is told from others by its kind, its key and the number of
\* the constructor call that made it; 0 stands for no primitive
NoPrimitive == 0

\* the objects of the earlier parts are not in use
EarlierPartsOff ==
  /\ LockInit /\ SetterIdle /\ CtorIdle
  /\ tables = <<>> /\ bvars = <<>> /\ last = NoOp /\ written = [p \in Procs |-> 0]
  /\ sock = "none" /\ session_lock = 0 /\ in_buffer = <<>> /\ out_buffer = 0
  /\ authenticated = FALSE
  /\ thread = [t \in Threads |-> NoFrame]
  /\ handle = [h \in Handles |-> NoHandle]
  /\ queries = [q \in QueryStrings |-> 0]
  /\ scope = "out" /\ exit_log = <<>>

\* GlobalDict.__init__, in every process: an empty cache over the shared
\* backing dict and the shared lock
InitGlobalDict ==
  /\ EarlierPartsOff
  /\ results = NoOp /\ swrapper = NoOp /\ shared_query = NoOp /\ over = NoOp
  /\ \E kind \in Kinds :
       global_dict = [kind |-> kind,
                      backing |-> [k \in Documents |-> NoPrimitive],
                      made |-> [k \in Documents |-> 0],
                      lock |-> 0,
                      cache |-> [p \in Procs |-> [k \in Documents |-> NoPrimitive]],
                      pc |-> [p \in Procs |-> "idle"],
                      key |-> [p \in Procs |-> "x"],
                      result |-> [p \in Procs |-> NoPrimitive],
                      got |-> [p \in Procs |-> [k \in Documents |-> NoPrimitive]]]

\* only the GlobalDict changes
OnlyGlobalDict ==
  /\ OthersIdle4
  /\ UNCHANGED <<results, swrapper, shared_query, over>>

\* GlobalDict.__getitem__(key): `return self.cache[key]`, or on KeyError go
\* on to `with self.lock`
GetItemCached(p) ==
  /\ global_dict.pc[p] = "idle"
  /\ \E k \in Documents :
       global_dict' =
         IF global_dict.cache[p][k] # NoPrimitive
         THEN [global_dict EXCEPT !.got[p][k] = global_dict.cache[p][k]]
         ELSE [global_dict EXCEPT !.pc[p] = "lock", !.key[p] = k]
  /\ OnlyGlobalDict

\* a mutant of ManagerLockFree: the lock of the GlobalDict does not exclude
ManagerLockFreeAlways(p) == TRUE

\* manager.Lock().acquire(): the lock is free
ManagerLockFree(p) == global_dict.lock = 0

\* `with self.lock:` entry
GetItemLock(p) ==
  /\ global_dict.pc[p] = "lock"
  /\ ManagerLockFree(p)
  /\ global_dict' = [global_dict EXCEPT !.lock = p, !.pc[p] = "try"]
  /\ OnlyGlobalDict

\* `result = self.backing[key]; self.cache[key] = result`, or KeyError
GetItemBacking(p) ==
  /\ global_dict.pc[p] = "try"
  /\ global_dict' =
       IF global_dict.backing[global_dict.key[p]] # NoPrimitive
       THEN [global_dict EXCEPT !.cache[p][global_dict.key[p]] =
                                   global_dict.backing[global_dict.key[p]],
                                !.result[p] = global_dict.backing[global_dict.key[p]],
                                !.pc[p] = "unlock"]
       ELSE [global_dict EXCEPT !.pc[p] = "construct"]
  /\ OnlyGlobalDict

\* `result = self.constructor(); self.backing[key] = result;
\* self.cache[key] = result`
GetItemConstruct(p) ==
  /\ global_dict.pc[p] = "construct"
  /\ global_dict' =
       [global_dict EXCEPT !.made[global_dict.key[p]] = @ + 1,
                           !.backing[global_dict.key[p]] =
                              global_dict.made[global_dict.key[p]] + 1,
                           !.cache[p][global_dict.key[p]] =
                              global_dict.made[global_dict.key[p]] + 1,
                           !.result[p] = global_dict.made[global_dict.key[p]] + 1,
                           !.pc[p] = "unlock"]
  /\ OnlyGlobalDict

\* `with self.lock:` exit and `return result`
GetItemUnlock(p) ==
  /\ global_dict.pc[p] = "unlock"
  /\ global_dict' = [global_dict EXCEPT !.lock = 0, !.pc[p] = "idle",
                                        !.got[p][global_dict.key[p]] = global_dict.result[p],
                                        !.result[p] = NoPrimitive]
  /\ OnlyGlobalDict

\* processes that share a Driver look keys up
NextGlobalDict ==
  \E p \in Procs :
    \/ GetItemCached(p)
    \/ GetItemLock(p)
    \/ GetItemBacking(p)
    \/ GetItemConstruct(p)
    \/ GetItemUnlock(p)

SpecGlobalDict == InitGlobalDict /\ [][NextGlobalDict]_vars

\* C31: for each key the constructor of a GlobalDict has run at most once,
\* and what a lookup of the key has returned to a process is the one
\* primitive stored for the key
C31_ConstructedOnce ==
  \A k \in Documents :
    /\ global_dict.made[k] <= 1
    /\ \A p \in Procs :
         global_dict.got[p][k] # NoPrimitive => global_dict.got[p][k] = global_dict.backing[k]

\* one process has constructed the primitive of a key and returned it, and
\* another, whose cache missed, is about to return the same primitive
C31_Witness ==
  \E p, q \in Procs : \E k \in Documents :
    /\ p # q
    /\ global_dict.got[p][k] # NoPrimitive
    /\ global_dict.pc[q] = "unlock"
    /\ global_dict.key[q] = k
    /\ global_dict.result[q] = global_dict.got[p][k]
    /\ global_dict.made[k] = 1

(* ----------------------- Session._RESULTS, _FULL ------------------------ *)

MaxWire == 6         \* bytes the server has sent at most (SpecResults)

\* the bytes of a response: the terminator, status 1, a type id without
\* metadata (element()), which is also the letter of the strings, and the
\* type ids document-node(), attribute() and xs:QName
WireBytes == {0, 1, 11, 12, 14, 82}

\* all responses of up to n bytes
Wires(n) == UNION {[1..m -> WireBytes] : m \in 0..n}

\* a mutant of HasMetadata: _FULL reads no metadata string
HasMetadataNever(mode, typeid) == FALSE

\* `if typeid in (12, 14, 82): xdm = self.recv_str()` of _FULL
HasMetadata(mode, typeid) == mode = "FULL" /\ typeid \in {12, 14, 82}

\* an item yielded: (typeid, item) or (typeid, xdm, item); xdm is None
\* where has_xdm is false
Yielded(typeid, has_xdm, xdm, str) ==
  [typeid |-> typeid, has_xdm |-> has_xdm, xdm |-> xdm, item |-> str]

\* the generator cannot go on: recv waits for bytes
Waits(r) == [r EXCEPT !.pc = "waits"]

\* from `status = self.recv_byte()` to the end of the generator
ResultsEnd(r, buf) ==
  IF buf = <<>> THEN Waits(r)
  ELSE IF Head(buf) = 0
       THEN [r EXCEPT !.pc = "done", !.status = 0, !.buf = Tail(buf),
                      !.res = IF Tail(buf) = <<>> THEN "return" ELSE "ProtocolError"]
  ELSE IF Head(buf) = 1
       THEN IF ~HasTerminator(Tail(buf)) THEN Waits(r)
            ELSE [r EXCEPT !.pc = "done", !.status = 1, !.info = StrOf(Tail(buf)),
                           !.buf = AfterStr(Tail(buf)),
                           !.res = IF AfterStr(Tail(buf)) = <<>> THEN "QueryError"
                                   ELSE "ProtocolError"]
  ELSE [r EXCEPT !.pc = "done", !.status = Head(buf), !.buf = Tail(buf),
                 !.res = "ProtocolError"]

\* the item after its type id: the metadata string where there is one, then
\* the item string, then the yield
ResultsItem(r, typeid, buf) ==
  IF HasMetadata(r.mode, typeid)
  THEN IF ~HasTerminator(buf) \/ ~HasTerminator(AfterStr(buf)) THEN Waits(r)
       ELSE [r EXCEPT !.buf = AfterStr(AfterStr(buf)),
                      !.yields = Append(@, Yielded(typeid, TRUE, StrOf(buf),
                                                   StrOf(AfterStr(buf))))]
  ELSE IF ~HasTerminator(buf) THEN Waits(r)
       ELSE [r EXCEPT !.buf = AfterStr(buf),
                      !.yields = Append(@, Yielded(typeid, FALSE, <<>>, StrOf(buf)))]

\* _RESULTS / _FULL from `typeid = self.recv_byte()` to the next yield or to
\* the end
ResultsStep(r) ==
  IF r.buf = <<>> THEN Waits(r)
  ELSE IF Head(r.buf) # 0 THEN ResultsItem(r, Head(r.buf), Tail(r.buf))
  ELSE ResultsEnd(r, Tail(r.buf))

\* the request is flushed and the server has sent some bytes
InitResults ==
  /\ EarlierPartsOff
  /\ global_dict = NoOp /\ swrapper = NoOp /\ shared_query = NoOp /\ over = NoOp
  /\ \E mode \in {"RESULTS", "FULL"}, wire \in Wires(MaxWire) :
       results = [mode |-> mode, wire |-> wire, buf |-> wire, yields |-> <<>>,
                  pc |-> "run", status |-> -1, info |-> <<>>, res |-> "none"]

\* the caller draws the next item
ResultsNext ==
  /\ results.pc = "run"
  /\ results' = ResultsStep(results)
  /\ OthersIdle4
  /\ UNCHANGED <<global_dict, swrapper, shared_query, over>>

NextResults == ResultsNext

SpecResults == InitResults /\ [][NextResults]_vars

RECURSIVE Encoded(_)
\* the bytes of a sequence of items on the wire
Encoded(ys) ==
  IF ys = <<>> THEN <<>>
  ELSE <<Head(ys).typeid>>
       \o (IF Head(ys).has_xdm THEN Head(ys).xdm \o <<0>> ELSE <<>>)
       \o Head(ys).item \o <<0>> \o Encoded(Tail(ys))

\* C32: the items yielded have type ids other than 0 and strings without
\* 0x00, exactly the items of _FULL with type id 12, 14 or 82 carry a
\* metadata string, which is sent before the item, and the bytes read are
\* the items in the order yielded and, when the generator has ended, the
\* type id 0, one status octet and, for status 1, one info string
C32_StreamFraming ==
  results.pc \in {"run", "done"} =>
    /\ \A i \in DOMAIN results.yields :
         /\ results.yields[i].typeid # 0
         /\ \A j \in DOMAIN results.yields[i].item : results.yields[i].item[j] # 0
         /\ \A j \in DOMAIN results.yields[i].xdm : results.yields[i].xdm[j] # 0
         /\ results.yields[i].has_xdm <=>
              (results.mode = "FULL" /\ results.yields[i].typeid \in {12, 14, 82})
    /\ results.wire =
         Encoded(results.yields)
         \o (IF results.pc = "run" THEN <<>>
             ELSE <<0, results.status>>
                  \o (IF results.status = 1 THEN results.info \o <<0>> ELSE <<>>))
         \o results.buf
    /\ results.pc = "done" => \A j \in DOMAIN results.info : results.info[j] # 0

\* _FULL has yielded an item of type id 12 with its metadata string and a
\* non-empty item string and has ended with status 0
C32_Witness ==
  /\ results.mode = "FULL"
  /\ results.pc = "done"
  /\ results.res = "return"
  /\ Len(results.yields) = 1
  /\ results.yields[1].has_xdm
  /\ results.yields[1].typeid = 12
  /\ results.yields[1].item = <<11>>

(* ------------------- SocketWrapper.Buffer, recv_str -------------------- *)

MaxStream == 5       \* bytes the server sends at most (SpecBuffer)

\* the bytes of a stream: the terminator and one letter
StreamBytes == {0, 7}

\* a mutant of ChunkFrom: the head chunk is left whole
WholeChunk(s, i) == s

\* the bytes of chunk s from position i on
ChunkFrom(s, i) == SubSeq(s, i, Len(s))

RECURSIVE Chunked(_, _, _)
\* the stream from position i on, cut after every position in cuts: what
\* the calls of sock.recv return one after the other
Chunked(stream, cuts, i) ==
  IF i > Len(stream) THEN <<>>
  ELSE LET j == CHOOSE k \in i..Len(stream) :
                  /\ k \in cuts \/ k = Len(stream)
                  /\ \A l \in i..(k - 1) : l \notin cuts
       IN <<SubSeq(stream, i, j)>> \o Chunked(stream, cuts, j + 1)

RECURSIVE Joined(_)
\* Buffer.__bytes__: bytes().join(self.data)
Joined(data) == IF data = <<>> THEN <<>> ELSE Head(data) \o Joined(Tail(data))

RECURSIVE SumLen(_)
\* sum(len(_s) for _s in self.data)
SumLen(data) == IF data = <<>> THEN 0 ELSE Len(Head(data)) + SumLen(Tail(data))

\* Buffer.__contains__: any(ch in _s for _s in self.data)
Contains(data, ch) == \E i \in DOMAIN data : \E j \in DOMAIN data[i] : data[i][j] = ch

RECURSIVE Index(_, _)
\* Buffer.index: the position of the first ch, summed over the chunks
\* (only called where ch is in the buffer)
Index(data, ch) ==
  IF \E j \in DOMAIN Head(data) : Head(data)[j] = ch
  THEN (CHOOSE j \in DOMAIN Head(data) :
          Head(data)[j] = ch /\ \A l \in 1..(j - 1) : Head(data)[l] # ch) - 1
  ELSE Len(Head(data)) + Index(Tail(data), ch)

RECURSIVE GetLoop(_, _, _)
\* the loop of Buffer.get: whole head chunks while they fit, and a head
\* chunk split where it does not
GetLoop(data, n, got) ==
  IF Len(got) >= n THEN [data |-> data, result |-> got]
  ELSE LET c == Head(data)
           needed == n - Len(got)
       IN IF Len(c) <= needed
          THEN GetLoop(Tail(data), n, got \o c)
          ELSE GetLoop(<<ChunkFrom(c, needed + 1)>> \o Tail(data), n,
                       got \o SubSeq(c, 1, needed))

\* Buffer.get(n) on a buffer b = [data, length]
Get(b, n) ==
  IF b.length < n THEN [data |-> b.data, length |-> b.length,
                        result |-> <<>>, raised |-> "ValueError"]
  ELSE LET g == GetLoop(b.data, n, <<>>)
       IN [data |-> g.data, length |-> b.length - Len(g.result),
           result |-> g.result, raised |-> "none"]

\* Buffer.put(b)
Put(b, chunk) == [data |-> Append(b.data, chunk), length |-> b.length + Len(chunk)]

RECURSIVE FillUntil(_, _, _)
\* the loop of recv_until: put what sock.recv returns until ch is in the
\* buffer (only called where the terminator is still to come)
FillUntil(b, net, ch) ==
  IF Contains(b.data, ch) THEN [b |-> b, net |-> net]
  ELSE FillUntil(Put(b, Head(net)), Tail(net), ch)

RECURSIVE FillTo(_, _, _)
\* the loop of recv: put what sock.recv returns until n bytes are there
FillTo(b, net, n) ==
  IF b.length >= n THEN [b |-> b, net |-> net]
  ELSE FillTo(Put(b, Head(net)), Tail(net), n)

\* the in-buffer is empty and the server will send a stream in some chunks
InitBuffer ==
  /\ EarlierPartsOff
  /\ global_dict = NoOp /\ results = NoOp /\ shared_query = NoOp /\ over = NoOp
  /\ \E m \in 0..MaxStream :
       \E stream \in [1..m -> StreamBytes], cuts \in SUBSET (1..(m - 1)) :
         swrapper = [data |-> <<>>, length |-> 0,
                     net |-> Chunked(stream, cuts, 1),
                     op |-> "none", n |-> 0, before |-> stream,
                     result |-> <<>>, raised |-> "none"]

OnlyBuffer == OthersIdle4 /\ UNCHANGED <<global_dict, results, shared_query, over>>

\* what is in the buffer and what is still to come
Remaining(w) == Joined(w.data) \o Joined(w.net)

\* Session.recv_str where the terminator is in the buffer or still to come:
\* recv_until(terminator), then recv(1) for the terminator
RecvStr ==
  /\ Contains(swrapper.data \o swrapper.net, 0)
  /\ LET f == FillUntil([data |-> swrapper.data, length |-> swrapper.length],
                        swrapper.net, 0)
         g == Get(f.b, Index(f.b.data, 0))
         h == FillTo([data |-> g.data, length |-> g.length], f.net, 1)
         z == Get(h.b, 1)
     IN swrapper' = [data |-> z.data, length |-> z.length, net |-> h.net,
                     op |-> "recv_str", n |-> 0, before |-> Remaining(swrapper),
                     result |-> g.result,
                     raised |-> IF z.result = <<0>> THEN "none" ELSE "AssertionError"]
  /\ OnlyBuffer

\* SocketWrapper.recv(n) where n bytes are there or still to come
Recv(n) ==
  /\ Len(Remaining(swrapper)) >= n
  /\ LET f == FillTo([data |-> swrapper.data, length |-> swrapper.length],
                     swrapper.net, n)
         g == Get(f.b, n)
     IN swrapper' = [data |-> g.data, length |-> g.length, net |-> f.net,
                     op |-> "recv", n |-> n, before |-> Remaining(swrapper),
                     result |-> g.result, raised |-> g.raised]
  /\ OnlyBuffer

\* Buffer.get(n) on the in-buffer as it is
BufferGet(n) ==
  /\ LET g == Get([data |-> swrapper.data, length |-> swrapper.length], n)
     IN swrapper' = [swrapper EXCEPT !.data = g.data, !.length = g.length,
                                     !.op = "get", !.n = n,
                                     !.before = Joined(swrapper.data),
                                     !.result = g.result, !.raised = g.raised]
  /\ OnlyBuffer

\* Buffer.put of the next chunk the socket returns
BufferPut ==
  /\ swrapper.net # <<>>
  /\ LET b == Put([data |-> swrapper.data, length |-> swrapper.length],
                  Head(swrapper.net))
     IN swrapper' = [swrapper EXCEPT !.data = b.data, !.length = b.length,
                                     !.net = Tail(@), !.op = "put", !.n = 0,
                                     !.before = Remaining(swrapper),
                                     !.result = <<>>, !.raised = "none"]
  /\ OnlyBuffer

NextBuffer ==
  \/ RecvStr
  \/ \E n \in 1..2 : Recv(n)
  \/ \E n \in 0..3 : BufferGet(n)
  \/ BufferPut

SpecBuffer == InitBuffer /\ [][NextBuffer]_vars

\* C33: however the stream is cut into chunks, recv_str returns the bytes
\* before the next 0x00 and leaves exactly the bytes after that 0x00, in
\* their order, in the in-buffer and on the socket; the length recorded is
\* the sum of the sizes of the queued chunks; get(n) returns the first n
\* bytes of the buffer and leaves the rest
C33_BufferFraming ==
  /\ swrapper.length = SumLen(swrapper.data)
  /\ swrapper.op = "recv_str" =>
       /\ swrapper.raised = "none"
       /\ swrapper.result = StrOf(swrapper.before)
       /\ Remaining(swrapper) = AfterStr(swrapper.before)
  /\ (swrapper.op \in {"get", "recv"} /\ swrapper.raised = "none") =>
       /\ swrapper.result = SubSeq(swrapper.before, 1, swrapper.n)
       /\ Len(swrapper.result) = swrapper.n
       /\ (IF swrapper.op = "get" THEN Joined(swrapper.data) ELSE Remaining(swrapper))
            = SubSeq(swrapper.before, swrapper.n + 1, Len(swrapper.before))
  /\ (swrapper.op = "get" /\ swrapper.raised = "ValueError") =>
       /\ Len(swrapper.before) < swrapper.n
       /\ Joined(swrapper.data) = swrapper.before

\* recv_str has returned a string whose bytes came in two chunks, the second
\* of which also held the terminator and a later byte, which is still in the
\* buffer
C33_Witness ==
  /\ swrapper.op = "recv_str"
  /\ swrapper.result = <<7, 7>>
  /\ swrapper.before = <<7, 7, 0, 7>>
  /\ swrapper.data = <<<<7>>>>
  /\ swrapper.length = 1
  /\ swrapper.net = <<>>

(* --------------------------- reader counts ----------------------------- *)

\* the locked_ro sections between entry and exit whose key set contains k
ReadersOf(k) == {p \in Procs : InReadSection(p) /\ k \in KeySet(call[p])}

\* C34: the reader count of every key is the number of locked_ro sections
\* between their entry and their exit, whether the wrapped method returns or
\* raises, whose key set contains the key, a composite reader counting once
\* for each of its keys; it is never negative
C34_ReaderCount ==
  \A k \in DOMAIN read_counter :
    /\ read_counter[k] = Cardinality(ReadersOf(k))
    /\ read_counter[k] >= 0

\* a composite reader and a single-key reader of one of its keys are both
\* inside their sections, and the composite reader is counted on its other
\* key, too
C34_Witness ==
  \E p, q \in Procs :
    /\ p # q
    /\ InReadSection(p) /\ call[p].multi /\ pc[p] = "ro_body"
    /\ InReadSection(q) /\ ~call[q].multi /\ pc[q] = "ro_body"
    /\ Overlap(p, q)
    /\ \E k \in KeySet(call[q]) : read_counter[k] = 2
    /\ \E k \in KeySet(call[p]) \ KeySet(call[q]) : read_counter[k] = 1

(* ------------------------------ deadlock ------------------------------- *)

\* C35: single-key and composite readers and writers over overlapping keys
\* never deadlock: while a call is under way some process can take a step;
\* a process that is taking write locks holds no condition; a composite
\* acquire can always take a step, having obtained some of its locks or
\* none; a writer asleep in wait_for does not hold the condition
C35_NoDeadlock ==
  /\ (\E p \in Procs : pc[p] # "idle") => ENABLED (\E p \in Procs : Step(p))
  /\ \A p \in Procs : pc[p] \in WriteAcqPcs =>
       \A k \in DOMAIN read_condition : read_condition[k].owner # p
  /\ \A p \in Procs : (call[p].multi /\ pc[p] \in AcqPcs) => ENABLED Step(p)
  /\ \A p \in Procs : pc[p] = "rw_sleep" =>
       read_condition[call[p].keys[1]].owner # p

\* a single-key writer is asleep waiting for the readers while a composite
\* reader over its key is about to take the conditions in its finally block
C35_Witness ==
  \E p, q \in Procs :
    /\ p # q
    /\ pc[p] = "rw_sleep" /\ call[p].kind = "rw"
    /\ call[q].multi /\ call[q].kind = "ro" /\ pc[q] = "ro_fin_cl"
    /\ Len(call[q].keys) = 2
    /\ Overlap(p, q)

(* ------------------------ composite acquire ---------------------------- *)

\* p is inside the blocking MultiLock.acquire of the write locks of a
\* composite accessor
AcquiringWriteLocks(p) == call[p].multi /\ pc[p] \in WriteAcqPcs

\* p has left that acquire with all its write locks
ObtainedWriteLocks(p) == call[p].multi /\ pc[p] \in {"ro_cl", "rw_cl"}

\* C36: under fair scheduling a blocking composite acquire returns, every
\* holder of an underlying lock releasing it eventually; so do the acquires
\* of two processes over the same keys in different orders
C36_AcquireReturns ==
  \A p \in Procs : AcquiringWriteLocks(p) ~> ObtainedWriteLocks(p)


(* -------------- Table reads of two threads on one Database ------------- *)

\* the values of the selectors of a read
SelectorValues == {"a", "b"}

\* nothing is bound to a variable on the server
Unbound == "unbound"

\* two threads share a Database; the Table of each compiles to one and the
\* same query string with two $key variables, whose QueryHandle is in the
\* cache and open
InitShared ==
  /\ EarlierPartsOff
  /\ global_dict = NoOp /\ results = NoOp /\ swrapper = NoOp /\ over = NoOp
  /\ shared_query = [bound |-> <<Unbound, Unbound>>,
                     lock |-> 0, read_counter |-> 0,
                     pc |-> [t \in Threads |-> "idle"],
                     vals |-> [t \in Threads |-> <<Unbound, Unbound>>],
                     n |-> [t \in Threads |-> 0],
                     result |-> [t \in Threads |-> <<Unbound, Unbound>>]]

OnlyShared == OthersIdle4 /\ UNCHANGED <<global_dict, results, swrapper, over>>

\* locked_ro of Table.__str__: the reader count goes up; readers do not
\* exclude each other
StrEnter(t) ==
  /\ shared_query.pc[t] = "idle"
  /\ \E v \in SelectorValues \X SelectorValues :
       shared_query' = [shared_query EXCEPT !.pc[t] = "apply_keys", !.vals[t] = v,
                                            !.n[t] = 0,
                                            !.read_counter = @ + 1]
  /\ OnlyShared

\* __apply_keys: query.bind('$key_m_n', ...): Session._BIND under the
\* session lock, which `locked` holds for this one operation
StrBind(t) ==
  /\ shared_query.pc[t] = "apply_keys"
  /\ shared_query.lock = 0
  /\ LET n == shared_query.n[t] + 1
     IN shared_query' = [shared_query EXCEPT
                           !.bound[n] = shared_query.vals[t][n],
                           !.n[t] = n,
                           !.pc[t] = IF n = 2 THEN "execute" ELSE "apply_keys"]
  /\ OnlyShared

\* query.execute(): Session._EXECUTE under the session lock: the server
\* evaluates the query with the values bound to its id
StrExecute(t) ==
  /\ shared_query.pc[t] = "execute"
  /\ shared_query.lock = 0
  /\ shared_query' = [shared_query EXCEPT !.result[t] = shared_query.bound,
                                          !.pc[t] = "finally"]
  /\ OnlyShared

\* the finally block of locked_ro: the reader count goes down
StrExit(t) ==
  /\ shared_query.pc[t] = "finally"
  /\ shared_query' = [shared_query EXCEPT !.read_counter = @ - 1, !.pc[t] = "idle"]
  /\ OnlyShared

NextShared == \E t \in Threads : StrEnter(t) \/ StrBind(t) \/ StrExecute(t) \/ StrExit(t)

SpecShared == InitShared /\ [][NextShared]_vars

\* C37: a read of a thread returns the result for the selector values the
\* thread bound itself
C37_ReadsOwnValues ==
  \A t \in Threads :
    shared_query.pc[t] = "finally" => shared_query.result[t] = shared_query.vals[t]


(* ---------------- external variables: declared and bound --------------- *)

Modes == {"GET", "COUNT", "INSERT", "DELETE", "KEYS", "GETATTR", "SETATTR"}

\* $key{level}_{m}_{n}{part}
KeyVar(level, m, n, part) == [name |-> "key", level |-> level, m |-> m, n |-> n, part |-> part]

\* the variables of value n of selector m: $key..._m_n, or for a slice, which
\* has both its bounds here, $key..._m_n_low and $key..._m_n_high
KeyVars(level, m, n, val) ==
  IF val # "slice" THEN {KeyVar(level, m - 1, n - 1, "")}
  ELSE {KeyVar(level, m - 1, n - 1, "_low"), KeyVar(level, m - 1, n - 1, "_high")}

RECURSIVE VarDecls(_, _)
\* Table.__var_decls: the variables of every value of every selector of the
\* selector chain, then those of the sub-Tables of the first step
VarDecls(t, level) ==
  UNION {IF t.sel[m].ellipsis THEN {}
         ELSE UNION {KeyVars(level, m, n, t.sel[m].vals[n]) : n \in DOMAIN t.sel[m].vals}
         : m \in DOMAIN t.sel}
  \cup (IF t.expr # <<>> /\ AllTables(t.expr[1].path)
        THEN UNION {VarDecls(t.expr[1].path[k].t, <<k>> \o level)
                    : k \in DOMAIN t.expr[1].path}
        ELSE {})

RECURSIVE ApplyKeys(_, _)
\* Table.__apply_keys: the variables bound, one for every pair of
\* zip(keys, vals) of every pair of zip(expression_chain, selector_chain),
\* then those of the sub-Tables of the first step
ApplyKeys(t, level) ==
  UNION {IF t.sel[m].ellipsis THEN {}
         ELSE UNION {KeyVars(level, m, n, t.sel[m].vals[n])
                     : n \in 1..Zipped(t.expr[m].keys, t.sel[m].vals)}
         : m \in 1..Zipped(t.expr, t.sel)}
  \cup (IF t.expr # <<>> /\ AllTables(t.expr[1].path)
        THEN UNION {ApplyKeys(t.expr[1].path[k].t, <<k>> \o level)
                    : k \in DOMAIN t.expr[1].path}
        ELSE {})

\* Table.__bound_var_decls and __apply_bound_variables: one variable for
\* every name of bound_variables
BoundVarDecls(t) == {[name |-> b[1]] : b \in bvars[t.bv]}

\* `declare variable $inserted external;` and __apply_value
Inserted(mode) == IF mode \in {"INSERT", "SETATTR"} THEN {[name |-> "inserted"]} ELSE {}

\* the external variables the query string of a mode declares
Declared(t, mode) == VarDecls(t, <<>>) \cup BoundVarDecls(t) \cup Inserted(mode)

\* the variables the methods of a mode bind before they execute
Bound(t, mode) == ApplyKeys(t, <<>>) \cup BoundVarDecls(t) \cup Inserted(mode)

\* C38: for every Table built with the operators whose query compiles, and
\* every mode, the external variables declared in the query string are the
\* variables bound before execute
C38_DeclaredAreBound ==
  \A i \in DOMAIN tables, mode \in Modes :
    Compiles(tables[i]) => Declared(tables[i], mode) = Bound(tables[i], mode)


(* --------------------- receive on a closed connection ------------------ *)

MaxEmpty == 2        \* empty chunks told apart in the in-buffer (SpecEof)

\* sock.recv(4096): the next chunk, or at end of stream, the server having
\* closed the connection, the empty bytes object, without blocking
SockRecv(net) == IF net = <<>> THEN <<>> ELSE Head(net)

\* the empty chunks in the buffer
Empties(data) == Cardinality({i \in DOMAIN data : data[i] = <<>>})

\* Buffer.put of what sock.recv returned; of the empty chunks, which the
\* deque collects without end, the buffer of the model keeps MaxEmpty
PutReceived(b, chunk) ==
  IF chunk = <<>> /\ Empties(b.data) >= MaxEmpty THEN b ELSE Put(b, chunk)

\* the server sends a stream in some chunks and closes the connection
InitEof ==
  /\ EarlierPartsOff
  /\ global_dict = NoOp /\ results = NoOp /\ shared_query = NoOp /\ over = NoOp
  /\ \E m \in 0..MaxStream :
       \E stream \in [1..m -> StreamBytes], cuts \in SUBSET (1..(m - 1)) :
         swrapper = [data |-> <<>>, length |-> 0,
                     net |-> Chunked(stream, cuts, 1),
                     op |-> "none", n |-> 0, before |-> stream,
                     result |-> <<>>, raised |-> "none",
                     pc |-> "idle", rounds |-> 0]

\* Session.recv_byte or Session.recv_str is called
EofCall ==
  /\ swrapper.pc = "idle"
  /\ \E op \in {"recv_byte", "recv_str"} :
       swrapper' = [swrapper EXCEPT !.pc = "loop", !.op = op,
                                    !.n = IF op = "recv_byte" THEN 1 ELSE 0,
                                    !.before = Remaining(swrapper),
                                    !.result = <<>>, !.rounds = 0]
  /\ OnlyBuffer

\* `while len(self.in_buffer) < n` of recv / `while not t in self.in_buffer`
\* of recv_until
LoopGoesOn(w) ==
  IF w.op = "recv_byte" THEN w.length < 1 ELSE ~Contains(w.data, 0)

\* one round of the loop: data = self.__sock.recv(4096); self.in_buffer.put(data)
EofLoop ==
  /\ swrapper.pc = "loop"
  /\ LoopGoesOn(swrapper)
  /\ LET b == PutReceived([data |-> swrapper.data, length |-> swrapper.length],
                          SockRecv(swrapper.net))
     IN swrapper' = [swrapper EXCEPT !.data = b.data, !.length = b.length,
                                     !.net = IF @ = <<>> THEN <<>> ELSE Tail(@),
                                     !.rounds = 1 - @]
  /\ OnlyBuffer

\* the loop has ended: recv returns get(1); recv_str returns what
\* recv_until got, after recv(1) for the terminator
EofReturn ==
  /\ swrapper.pc = "loop"
  /\ ~LoopGoesOn(swrapper)
  /\ LET b == [data |-> swrapper.data, length |-> swrapper.length]
         g == IF swrapper.op = "recv_byte" THEN Get(b, 1) ELSE Get(b, Index(b.data, 0))
         z == IF swrapper.op = "recv_byte" THEN g
              ELSE Get([data |-> g.data, length |-> g.length], 1)
     IN swrapper' = [swrapper EXCEPT !.data = z.data, !.length = z.length,
                                     !.result = g.result, !.pc = "idle"]
  /\ OnlyBuffer

NextEof == EofCall \/ EofLoop \/ EofReturn

SpecEof == InitEof /\ [][NextEof]_vars

\* the thread inside the receive keeps running
FairSpecEof == SpecEof /\ WF_vars(EofLoop) /\ WF_vars(EofReturn)

\* C39: every receive ends, also where the server has closed the connection
\* before the awaited byte or terminator
C39_ReceiveTerminates == (swrapper.pc = "loop") ~> (swrapper.pc = "idle")


(* ------------------- Table.__call__ and Table.tag ---------------------- *)

MaxResponse == 3     \* items of a response at most (SpecOver)

\* the items of a response: of a type py_convert converts, or of a type for
\* which it raises TypeError (attribute(), comment(), xs:date, ...)
ItemKinds == {"converts", "no_conversion"}

\* the responses of the server: some items, then the status
Responses == [items : UNION {[1..n -> ItemKinds] : n \in 0..MaxResponse}, status : {0, 1}]

\* next(over) on the generator of Table.__iter__ / Table.get_tags, which
\* runs Query.results and below it Session._RESULTS inside `with self.lock`.
\* freed: whether the abandoned _RESULTS generator has been collected, and
\* with it the session lock released, when py_convert has raised
GenNext(o, freed) ==
  IF o.dead THEN [o |-> o, out |-> "StopIteration"]
  ELSE IF o.pos < Len(o.items)
       THEN IF o.items[o.pos + 1] = "converts"
            THEN [o |-> [o EXCEPT !.pos = @ + 1, !.lock = 1], out |-> "item"]
            ELSE [o |-> [o EXCEPT !.pos = @ + 1, !.dead = TRUE,
                                  !.lock = IF freed THEN 0 ELSE 1],
                  out |-> "TypeError"]
  ELSE [o |-> [o EXCEPT !.ended = TRUE, !.dead = TRUE, !.lock = 0],
        out |-> IF o.status = 0 THEN "StopIteration" ELSE "QueryError"]

\* no call is under way
InitOver ==
  /\ EarlierPartsOff
  /\ global_dict = NoOp /\ results = NoOp /\ swrapper = NoOp /\ shared_query = NoOp
  /\ over = [op |-> "none", items |-> <<>>, status |-> 0, pos |-> 0, ended |-> FALSE,
             dead |-> FALSE, lock |-> 0, pc |-> "idle", finished |-> FALSE,
             pending |-> "none", exit |-> "none", opened |-> FALSE]

OnlyOver == OthersIdle4 /\ UNCHANGED <<global_dict, results, swrapper, shared_query>>

\* Table.__call__: over = iter(self); or the Table.tag getter, which raises
\* ValueError before it opens a stream where the Table is a slice; the
\* server will answer the query with some response
OverStart ==
  /\ over.pc = "idle"
  /\ \E op \in {"call", "tag"}, slice \in BOOLEAN, r \in Responses :
       over' = IF op = "tag" /\ slice
               THEN [over EXCEPT !.op = op, !.items = <<>>, !.status = 0, !.pos = 0,
                                 !.ended = FALSE, !.dead = FALSE, !.lock = 0,
                                 !.finished = FALSE, !.pending = "none",
                                 !.opened = FALSE, !.exit = "ValueError"]
               ELSE [over EXCEPT !.op = op, !.items = r.items, !.status = r.status,
                                 !.pos = 0, !.ended = FALSE, !.dead = FALSE, !.lock = 0,
                                 !.finished = FALSE, !.pending = "none",
                                 !.opened = TRUE, !.exit = "none", !.pc = "first"]
  /\ OnlyOver

\* `result = next(over)`; StopIteration: finished = True, KeyError
OverFirst ==
  /\ over.pc = "first"
  /\ \E freed \in BOOLEAN :
       LET g == GenNext(over, freed)
       IN over' = CASE g.out = "item" -> [g.o EXCEPT !.pc = "second"]
                    [] g.out = "StopIteration" ->
                         [g.o EXCEPT !.finished = TRUE, !.pending = "KeyError",
                                     !.pc = "finally"]
                    [] OTHER -> [g.o EXCEPT !.pending = g.out, !.pc = "finally"]
  /\ OnlyOver

\* the second next(over); StopIteration: finished = True and `return result`;
\* an item: ValueError
OverSecond ==
  /\ over.pc = "second"
  /\ \E freed \in BOOLEAN :
       LET g == GenNext(over, freed)
       IN over' = CASE g.out = "item" -> [g.o EXCEPT !.pending = "ValueError",
                                                     !.pc = "finally"]
                    [] g.out = "StopIteration" ->
                         [g.o EXCEPT !.finished = TRUE, !.pending = "return",
                                     !.pc = "finally"]
                    [] OTHER -> [g.o EXCEPT !.pending = g.out, !.pc = "finally"]
  /\ OnlyOver

\* the finally block: `if not finished: while True: next(over)` until
\* StopIteration; an exception of next leaves the block in place of the
\* pending one
OverFinally ==
  /\ over.pc = "finally"
  /\ \E freed \in BOOLEAN :
       LET g == GenNext(over, freed)
       IN over' = IF over.finished
                  THEN [over EXCEPT !.exit = over.pending, !.pc = "idle"]
                  ELSE CASE g.out = "item" -> g.o
                         [] g.out = "StopIteration" ->
                              [g.o EXCEPT !.exit = over.pending, !.pc = "idle"]
                         [] OTHER -> [g.o EXCEPT !.exit = g.out, !.pc = "idle"]
  /\ OnlyOver

NextOver == OverStart \/ OverFirst \/ OverSecond \/ OverFinally

SpecOver == InitOver /\ [][NextOver]_vars

\* the call has returned or raised
Exited == over.pc = "idle" /\ over.exit # "none"

\* the whole response has been read and the session lock is free
Exhausted == over.pos = Len(over.items) /\ over.ended /\ over.lock = 0

\* C40: when Table.__call__ or the Table.tag getter returns or raises, the
\* result stream it opened is exhausted: the whole response has been read
\* and the session lock is released
C40_StreamExhausted == (Exited /\ over.opened) => Exhausted

====
